---- MODULE Spec2Model ----
(***************************************************************************)
(* A model of gbemu: the PPU timing state machine (src/src/gpu.rs), its    *)
(* frame hand-off with a presentation thread, the memory decoder           *)
(* (src/src/mmu.rs) and the CPU's run loop (src/src/emulator.rs).          *)
(***************************************************************************)
EXTENDS Integers, Sequences, FiniteSets, TLC

(***************************************************************************)
(* Program constants of gpu.rs.                                            *)
(***************************************************************************)
WIDTH == 160
HEIGHT == 144
OamThreshold == 80
VramThreshold == 172
\* A threshold of HBlank as short as that of the OAM scan.
HBlankThresholdEarly == 204 - 124
HBlankThreshold == 204
VBlankThreshold == 456
\* The line at which HBlank hands over to VBlank, one line late.
VBlankStartLineLate == 143 + 1
VBlankStartLine == 143
\* The last line of VBlank, one line late.
LastLineLate == 153 + 1
LastLine == 153
TileMapBase == 6144

(***************************************************************************)
(* Bounds of the model.                                                    *)
(***************************************************************************)
\* Publications counted before the counter saturates.
MaxFrames == 2
\* Writes to GPU addresses interleaved with the steps of SpecFrame.
MaxGpuWrites == 1
\* Repetitions of the scripted 456-tick sequence in SpecSeq.
MaxScriptReps == 145
\* Writes of a value with bit 0 set to the boot-lock register that are counted.
MaxLockWrites == 2
\* Iterations of run() in SpecCpu.
MaxSteps == 26
\* Ticks handed to step in a run of SpecTicks: a little more than one frame.
MaxTicks == 72000
\* Ticks of a run of SpecTicks during which every call takes any amount.
FreeTicks == 300

\* Tick amounts handed to step(): the CPU reports machine_cycles * 4 (24 for
\* its longest instructions), and 80, 172, 204 are the amounts the timing
\* properties name.
Ticks == {24, 80, 172, 204}
\* A tick amount that completes the current mode in every call.
CoarseTicks == {456}
\* The 456-tick sequence fed as three calls.
TickScript == <<80, 172, 204>>

Rows == 0..(HEIGHT - 1)

VARIABLES
    mode,           \* Gpu.mode
    modeclock,      \* Gpu.modeclock
    line,           \* Gpu.line
    graphics_ram,   \* Gpu.graphics_ram: the bytes written so far (all others are 0)
    scroll_x,       \* Gpu.scroll_x
    scroll_y,       \* Gpu.scroll_y
    frame,          \* Gpu.frame, by row: the alpha byte of its pixels and the lit pixels
    channel,        \* Gpu.channel is Some
    pair,           \* Gpu.pair is Some
    drawn,          \* the bool inside the pair's Mutex
    queue,          \* frames sent on the channel and not yet received
    ppc,            \* where the emulation thread is inside step()
    cpc,            \* where the presentation thread is
    held,           \* the frame the presentation thread has received
    painted,        \* rows rendered since the last publication
    published,      \* number of frames sent (saturates at MaxFrames)
    sentAtLine,     \* value of line at each send
    script,         \* number of scripted step calls made
    gpuWrites,      \* number of GPU writes made
    rom,            \* Mmu.rom (the nonzero bytes)
    bootrom,        \* Mmu.bootrom (the nonzero bytes)
    bootrom_lock,   \* Mmu.bootrom_lock: TRUE while the boot overlay is mapped
    ram,            \* Mmu.ram (the nonzero bytes)
    mbc0_ram,       \* Mmu.mbc0_ram (the nonzero bytes)
    zero_page_ram,  \* Mmu.zero_page_ram (the nonzero bytes)
    interrupt_flags,\* Mmu.interrupt_flags
    fault,          \* "none", or "panic" once the emulation thread has panicked
    lastOp,         \* the last memory decoder call and what it returned
    lockWrites,     \* writes of a value with bit 0 set to 0xFF50 (saturates at MaxLockWrites)
    regs,           \* Emulator.regs
    overflow_checks,\* the build panics on integer overflow (debug) or wraps (release)
    exit,           \* "none" while run() has not returned, else the VmExit it returned
    lastInstr,      \* the last iteration of run(): what was fetched and what it did
    steps,          \* number of iterations of run() made
    ticks           \* sum of the cycle_nb run() has handed to Gpu::step

ppuVars == <<mode, modeclock, line, graphics_ram, scroll_x, scroll_y, frame>>
syncVars == <<channel, pair, drawn, queue, ppc, cpc, held>>
ghostVars == <<painted, published, sentAtLine, script, gpuWrites>>
mmuVars == <<rom, bootrom, bootrom_lock, ram, mbc0_ram, zero_page_ram,
             interrupt_flags, fault, lastOp, lockWrites>>
cpuVars == <<regs, overflow_checks, exit, lastInstr, steps, ticks>>
vars == <<ppuVars, syncVars, ghostVars, mmuVars, cpuVars>>

(***************************************************************************)
(* Byte vectors are kept as the function of their nonzero bytes: every     *)
(* vector of the program starts zeroed (vec![0; n]).                       *)
(***************************************************************************)
NoBytes == [a \in {} |-> 0]

ByteAt(vec, a) == IF a \in DOMAIN vec THEN vec[a] ELSE 0

SetByte(vec, a, v) ==
    IF v = 0
    THEN [x \in (DOMAIN vec) \ {a} |-> vec[x]]
    ELSE [x \in (DOMAIN vec) \cup {a} |-> IF x = a THEN v ELSE vec[x]]

(***************************************************************************)
(* Gpu::new                                                                *)
(***************************************************************************)
\* A row of the frame holds WIDTH RGBA pixels.  Every pixel the program stores is
\* [val, val, val, 0xff] with val 0 or 255, and the array starts as zeroes, so a
\* row is kept as the alpha byte its pixels share and the set of pixels with
\* val = 255; FrameByte gives back the byte at an offset of the array.
ZeroRow == [alpha |-> 0, lit |-> {}]

FrameByte(f, offset) ==
    LET row == (offset \div 4) \div WIDTH
        pixel == (offset \div 4) % WIDTH
    IN  IF offset % 4 = 3 THEN f[row].alpha
        ELSE IF pixel \in f[row].lit THEN 255 ELSE 0

\* The fields of Gpu::new other than channel and pair.
GpuNewFields ==
    /\ frame = [r \in Rows |-> ZeroRow]
    /\ mode = "HBlank"
    /\ modeclock = 0
    /\ line = 0
    /\ graphics_ram = NoBytes
    /\ scroll_x = 0
    /\ scroll_y = 0

GpuNew ==
    /\ channel = FALSE
    /\ pair = FALSE
    /\ GpuNewFields

\* The boot image and the cartridge image loaded before the run.
BootImage == (0 :> 49) @@ (80 :> 206) @@ (255 :> 80)
RomImage == (0 :> 62) @@ (1 :> 5) @@ (2 :> 118) @@ (80 :> 195) @@ (256 :> 195)

(***************************************************************************)
(* Emulator::new: the register file is zeroed; run() has not been called.   *)
(***************************************************************************)
RegistersNew ==
    [a |-> 0, b |-> 0, c |-> 0, d |-> 0, e |-> 0, f |-> 0, h |-> 0, l |-> 0,
     sp |-> 0, pc |-> 0]

NoInstr ==
    [pc |-> 0, instr |-> 0, sub |-> 0, out |-> "none", cause |-> "none", bytes |-> 0,
     cycles |-> 0, stepped |-> <<>>, before |-> RegistersNew, lockBefore |-> TRUE]

CpuIdle ==
    /\ exit = "none"
    /\ lastInstr = NoInstr
    /\ steps = 0
    /\ ticks = 0

\* The register file of Emulator::new, in a build with overflow checks (the
\* default of the dev profile).
CpuNew ==
    /\ regs = RegistersNew
    /\ overflow_checks = TRUE
    /\ CpuIdle

(***************************************************************************)
(* Mmu::new and Mmu::load_rom                                              *)
(***************************************************************************)
MmuNew ==
    /\ bootrom = BootImage
    /\ bootrom_lock = TRUE
    /\ rom = RomImage
    /\ ram = NoBytes
    /\ mbc0_ram = NoBytes
    /\ zero_page_ram = NoBytes
    /\ interrupt_flags = 0

Fresh ==
    /\ MmuNew
    /\ fault = "none"
    /\ lastOp = [kind |-> "none", address |-> 0, val |-> 0, lockBefore |-> TRUE]
    /\ lockWrites = 0
    /\ CpuNew
    /\ queue = <<>>
    /\ ppc = "run"
    /\ cpc = "idle"
    /\ held = <<>>
    /\ painted = {}
    /\ published = 0
    /\ sentAtLine = <<>>
    /\ script = 0
    /\ gpuWrites = 0

\* The state after construction: no consumer is attached.
Init ==
    /\ Fresh
    /\ GpuNew
    /\ drawn = FALSE

\* The state after construction and sync(channel, pair), the host having created
\* the flag true.
InitSynced ==
    /\ Fresh
    /\ GpuNewFields
    /\ channel = TRUE
    /\ pair = TRUE
    /\ drawn = TRUE

(***************************************************************************)
(* Gpu::render_line                                                        *)
(***************************************************************************)
\* (data >> bit) & 1
BitOf(data, bit) == (data \div (2 ^ bit)) % 2

PixelVal(vram, ln, scx, scy, pixel) ==
    LET position_y == (ln + scy) % 256
        tile_row == (position_y \div 8) * 32
        position_x == (pixel + scx) % 256
        tile_col == position_x \div 8
        tile_address == TileMapBase + tile_row + tile_col
        tile_id == ByteAt(vram, tile_address)
        tile_location == tile_id * 16
        line_in_tile == (position_y % 8) * 2
        data == ByteAt(vram, tile_location + line_in_tile)
        color_bit == 7 - (position_x % 8)
        val == BitOf(data, color_bit) * 255
    IN  val

\* The 160 pixels [val, val, val, 0xff] render_line stores for one line.
RenderedRow(vram, ln, scx, scy) ==
    [alpha |-> 255,
     lit |-> {p \in 0..(WIDTH - 1) : PixelVal(vram, ln, scx, scy, p) = 255}]

\* The frame after render_line(ln): the offsets (ln * WIDTH + pixel) * 4 of the
\* 160 pixels are exactly row ln of the frame.
RenderLine(f, vram, ln, scx, scy) ==
    IF ln \in Rows THEN [f EXCEPT ![ln] = RenderedRow(vram, ln, scx, scy)] ELSE f

(***************************************************************************)
(* Gpu::step: the timing state machine.  StepTo gives mode, modeclock and   *)
(* line after the call's match arm; render and boundary tell which side     *)
(* effects the arm has (render_line, the frame hand-off).                   *)
(***************************************************************************)
StepTo(m, mc0, ln, cycle_nb) ==
    LET mc == mc0 + cycle_nb
        stay == [mode |-> m, modeclock |-> mc, line |-> ln,
                 render |-> FALSE, boundary |-> FALSE]
    IN  CASE m = "OAMAccess" ->
               IF mc >= OamThreshold
               THEN [stay EXCEPT !.modeclock = 0, !.mode = "VRAMAccess"]
               ELSE stay
          [] m = "VRAMAccess" ->
               IF mc >= VramThreshold
               THEN [stay EXCEPT !.modeclock = 0, !.mode = "HBlank", !.render = TRUE]
               ELSE stay
          [] m = "HBlank" ->
               IF mc >= HBlankThreshold
               THEN IF ln + 1 = VBlankStartLine
                    THEN [stay EXCEPT !.modeclock = 0, !.line = ln + 1,
                                      !.mode = "VBlank", !.boundary = TRUE]
                    ELSE [stay EXCEPT !.modeclock = 0, !.line = ln + 1,
                                      !.mode = "OAMAccess"]
               ELSE stay
          [] m = "VBlank" ->
               IF mc >= VBlankThreshold
               THEN IF ln + 1 > LastLine
                    THEN [stay EXCEPT !.modeclock = 0, !.line = 0, !.mode = "OAMAccess"]
                    ELSE [stay EXCEPT !.modeclock = 0, !.line = ln + 1]
               ELSE stay

\* A box that does not hold the bytes of the frame: a fresh zeroed array.
FrameCopyBlank(f) == [r \in Rows |-> ZeroRow]
\* Box::new(self.frame): the array is copied into the box that is sent.
FrameCopy(f) == f

\* The wait taken whether or not a pair is attached.
AlwaysWaits == TRUE
\* if let Some(pair) = &self.pair, in step.
WaitsForConsumer == pair

\* if let Some(sender) = &self.channel, in render_frame.
HasSender == channel

Bump(n) == IF n < MaxFrames THEN n + 1 ELSE n
Note(s, ln) == IF Len(s) < MaxFrames THEN Append(s, ln) ELSE s

\* sender.send(Box::new(self.frame)), with line = ln at that moment.
SendFrame(ln) ==
    /\ queue' = Append(queue, FrameCopy(frame))
    /\ published' = Bump(published)
    /\ sentAtLine' = Note(sentAtLine, ln)
    /\ painted' = {}

\* One call of step(cycle_nb), up to its return or to the point where it takes
\* the lock of the pair.
Step(cycle_nb) ==
    /\ ppc = "run"
    /\ fault = "none"
    /\ LET s == StepTo(mode, modeclock, line, cycle_nb) IN
        /\ mode' = s.mode
        /\ modeclock' = s.modeclock
        /\ line' = s.line
        /\ frame' = IF s.render
                    THEN RenderLine(frame, graphics_ram, line, scroll_x, scroll_y)
                    ELSE frame
        /\ fault' = IF s.render /\ line \notin Rows THEN "panic" ELSE fault
        /\ IF s.boundary
           THEN IF WaitsForConsumer
                THEN /\ ppc' = "lock"
                     /\ UNCHANGED <<queue, published, sentAtLine, painted>>
                ELSE /\ ppc' = "run"
                     /\ IF HasSender
                        THEN SendFrame(s.line)
                        ELSE UNCHANGED <<queue, published, sentAtLine, painted>>
           ELSE /\ ppc' = "run"
                /\ painted' = IF s.render THEN painted \cup {line} ELSE painted
                /\ UNCHANGED <<queue, published, sentAtLine>>
    /\ UNCHANGED <<graphics_ram, scroll_x, scroll_y, channel, pair, drawn, cpc, held>>
    /\ UNCHANGED <<rom, bootrom, bootrom_lock, ram, mbc0_ram, zero_page_ram,
                   interrupt_flags, lastOp, lockWrites, cpuVars>>

\* The loop of step() with its test negated: it waits while the flag is true.
StepLockInverted ==
    /\ ppc = "lock"
    /\ ppc' = IF ~drawn THEN "render_frame" ELSE "wait"
    /\ UNCHANGED <<ppuVars, channel, pair, drawn, queue, cpc, held, ghostVars, mmuVars, cpuVars>>

\* step(): lock the mutex and test the flag; wait on the condvar while it is
\* false (the wait releases the mutex), else drop the guard.
StepLock ==
    /\ ppc = "lock"
    /\ ppc' = IF drawn THEN "render_frame" ELSE "wait"
    /\ UNCHANGED <<ppuVars, channel, pair, drawn, queue, cpc, held, ghostVars, mmuVars, cpuVars>>

\* Condvar::wait may return without a notification; the loop tests the flag again.
SpuriousWake ==
    /\ ppc = "wait"
    /\ ppc' = "lock"
    /\ UNCHANGED <<ppuVars, channel, pair, drawn, queue, cpc, held, ghostVars, mmuVars, cpuVars>>

\* render_frame() without the store of false into the flag.
RenderFrameNoClear ==
    /\ ppc = "render_frame"
    /\ ppc' = IF HasSender THEN "send" ELSE "run"
    /\ UNCHANGED <<ppuVars, channel, pair, drawn, queue, cpc, held, ghostVars, mmuVars, cpuVars>>

\* render_frame(): with a sender, clear the flag under the lock.
RenderFrameClear ==
    /\ ppc = "render_frame"
    /\ IF HasSender
       THEN /\ drawn' = IF pair THEN FALSE ELSE drawn
            /\ ppc' = "send"
       ELSE /\ ppc' = "run"
            /\ UNCHANGED drawn
    /\ UNCHANGED <<ppuVars, channel, pair, queue, cpc, held, ghostVars, mmuVars, cpuVars>>

\* render_frame(): sender.send(Box::new(self.frame)); step() returns.
RenderFrameSend ==
    /\ ppc = "send"
    /\ ppc' = "run"
    /\ SendFrame(line)
    /\ UNCHANGED <<ppuVars, channel, pair, drawn, cpc, held, script, gpuWrites, mmuVars, cpuVars>>

(***************************************************************************)
(* Gpu::sync: the host attaches the channel and the pair; d is the value    *)
(* the host created the flag with.                                         *)
(***************************************************************************)
SyncWith(d) ==
    /\ ppc = "run"
    /\ ~pair
    /\ pair' = TRUE
    /\ channel' = TRUE
    /\ drawn' = d
    /\ UNCHANGED <<ppuVars, queue, ppc, cpc, held, ghostVars, mmuVars, cpuVars>>

Sync == \E d \in BOOLEAN : SyncWith(d)

(***************************************************************************)
(* The presentation thread: it receives a frame, draws it, then sets the    *)
(* flag to true and signals the condition variable.                        *)
(***************************************************************************)
ConsumerRecv ==
    /\ cpc = "idle"
    /\ queue # <<>>
    /\ held' = <<Head(queue)>>
    /\ queue' = Tail(queue)
    /\ cpc' = "drawing"
    /\ UNCHANGED <<ppuVars, channel, pair, drawn, ppc, ghostVars, mmuVars, cpuVars>>

ConsumerAck ==
    /\ cpc = "drawing"
    /\ drawn' = TRUE
    /\ held' = <<>>
    /\ cpc' = "notify"
    /\ UNCHANGED <<ppuVars, channel, pair, queue, ppc, ghostVars, mmuVars, cpuVars>>

ConsumerNotify ==
    /\ cpc = "notify"
    /\ cpc' = "idle"
    /\ ppc' = IF ppc = "wait" THEN "lock" ELSE ppc
    /\ UNCHANGED <<ppuVars, channel, pair, drawn, queue, held, ghostVars, mmuVars, cpuVars>>

(***************************************************************************)
(* The emulation thread's calls of step.                                   *)
(***************************************************************************)
StepAny ==
    /\ \E t \in Ticks : Step(t)
    /\ UNCHANGED <<script, gpuWrites>>

StepCoarse ==
    /\ \E t \in CoarseTicks : Step(t)
    /\ UNCHANGED <<script, gpuWrites>>

\* step(80), step(172), step(204), repeated.
StepScript ==
    /\ script < 3 * MaxScriptReps
    /\ Step(TickScript[(script % 3) + 1])
    /\ script' = script + 1
    /\ UNCHANGED gpuWrites

Next ==
    \/ StepAny
    \/ StepLock
    \/ SpuriousWake
    \/ RenderFrameClear
    \/ RenderFrameSend
    \/ Sync
    \/ ConsumerRecv
    \/ ConsumerAck
    \/ ConsumerNotify

Spec == Init /\ [][Next]_vars

\* The host attaches the consumer before the first call of step.
SyncAtStart ==
    /\ script = 0
    /\ Sync

NextSeq ==
    \/ StepScript
    \/ StepLock
    \/ SpuriousWake
    \/ RenderFrameClear
    \/ RenderFrameSend
    \/ SyncAtStart
    \/ ConsumerRecv
    \/ ConsumerAck
    \/ ConsumerNotify

SpecSeq == Init /\ [][NextSeq]_vars

(***************************************************************************)
(* The memory decoder.  A call works on the record of the fields it can     *)
(* read or write; ok = FALSE records that the call panicked.               *)
(***************************************************************************)
Memory ==
    [rom |-> rom, bootrom |-> bootrom, bootrom_lock |-> bootrom_lock, ram |-> ram,
     mbc0_ram |-> mbc0_ram, zero_page_ram |-> zero_page_ram,
     interrupt_flags |-> interrupt_flags, graphics_ram |-> graphics_ram,
     scroll_y |-> scroll_y, mode |-> mode, line |-> line, ok |-> TRUE,
     lockWrites |-> lockWrites, cause |-> "none"]

\* panic!() or unreachable!() in a decoder call.
Panic(m) == [m EXCEPT !.ok = FALSE, !.cause = "access"]

Ok(v) == [ok |-> TRUE, val |-> v]
ReadPanic == [ok |-> FALSE, val |-> 0]

ModeBits(m) ==
    CASE m = "HBlank" -> 0
      [] m = "VBlank" -> 1
      [] m = "OAMAccess" -> 2
      [] m = "VRAMAccess" -> 3

\* Gpu::read_byte
GpuReadByte(m, address) ==
    CASE address \in 32768..40959 -> Ok(ByteAt(m.graphics_ram, address - 32768))
      [] address \in 65024..65183 -> ReadPanic
      [] address = 65344 -> Ok(0)
      [] address = 65345 -> Ok(ModeBits(m.mode))
      [] address = 65346 -> Ok(m.scroll_y)
      [] address = 65348 -> Ok(m.line)
      [] OTHER -> ReadPanic

\* Mmu::handle_io_read
HandleIoRead(m, address) ==
    CASE address = 65280 -> Ok(0)
      [] address \in 65344..65359 -> GpuReadByte(m, address)
      [] address = 65360 -> Ok(IF m.bootrom_lock THEN 0 ELSE 1)
      [] address \in 65384..65387 -> GpuReadByte(m, address)
      [] OTHER -> ReadPanic

\* An overlay that ends one byte early.
OverlayEndShort == 255 - 1
\* The last address the boot overlay answers (address <= 0xFF).
OverlayEnd == 255

\* Mmu::read_byte
ReadByte(m, address) ==
    CASE address \in 0..32767 ->
            IF m.bootrom_lock /\ address <= OverlayEnd
            THEN Ok(ByteAt(m.bootrom, address))
            ELSE Ok(ByteAt(m.rom, address))
      [] address \in 32768..40959 -> GpuReadByte(m, address)
      [] address \in 40960..49151 -> Ok(ByteAt(m.mbc0_ram, address - 40960))
      [] address \in 49152..57343 -> Ok(ByteAt(m.ram, address - 49152))
      [] address \in 57344..65023 -> Ok(ByteAt(m.ram, address - 57344))
      [] address \in 65024..65183 -> GpuReadByte(m, address)
      [] address \in 65280..65407 -> HandleIoRead(m, address)
      [] address \in 65408..65535 -> Ok(ByteAt(m.zero_page_ram, address - 65408))
      [] OTHER -> ReadPanic

\* Gpu::write_byte
GpuWriteByte(m, address, val) ==
    CASE address \in 32768..40959 ->
            [m EXCEPT !.graphics_ram = SetByte(@, address - 32768, val)]
      [] address = 65344 -> m
      [] address = 65346 -> [m EXCEPT !.scroll_y = val]
      [] address = 65351 -> m
      [] OTHER -> Panic(m)

\* The registers handle_io_write accepts and ignores (joypad, serial, timer
\* modulo, sound).
IgnoredIoWrites ==
    {65280, 65281, 65282, 65286, 65296, 65297, 65298, 65299, 65300, 65303, 65305,
     65306, 65313, 65315, 65316, 65317, 65318, 65407}

\* The lock following bit 0 of every value written to 0xFF50.
WriteBootLockToggle(m, val) == [m EXCEPT !.bootrom_lock = (val % 2 = 0)]

\* The boot ROM lock register, 0xFF50, in handle_io_write.
WriteBootLock(m, val) ==
    IF val % 2 = 1 /\ ReadByte(m, 65360).val % 2 = 0
    THEN [m EXCEPT !.bootrom_lock = FALSE]
    ELSE m

\* Counts the writes to 0xFF50 that have bit 0 set.
NoteLockWrite(m, val) ==
    IF val % 2 = 1 /\ m.lockWrites < MaxLockWrites
    THEN [m EXCEPT !.lockWrites = @ + 1]
    ELSE m

\* Mmu::handle_io_write
HandleIoWrite(m, address, val) ==
    CASE address \in IgnoredIoWrites -> m
      [] address \in 65344..65359 -> GpuWriteByte(m, address, val)
      [] address = 65360 -> NoteLockWrite(WriteBootLock(m, val), val)
      [] address = 65295 ->
            IF val = 0 \/ val = 1 THEN [m EXCEPT !.interrupt_flags = val] ELSE Panic(m)
      [] OTHER -> Panic(m)

\* Mmu::write_byte
WriteByte(m, address, val) ==
    CASE address \in 0..16383 -> m
      [] address \in 32768..40959 -> GpuWriteByte(m, address, val)
      [] address \in 49152..57343 -> [m EXCEPT !.ram = SetByte(@, address - 49152, val)]
      [] address \in 65024..65183 -> m
      [] address \in 65184..65279 -> m
      [] address \in 65280..65407 -> HandleIoWrite(m, address, val)
      [] address \in 65408..65535 ->
            [m EXCEPT !.zero_page_ram = SetByte(@, address - 65408, val)]
      [] OTHER -> Panic(m)

\* The fields of the program take the values of record m.
Store(m) ==
    /\ bootrom_lock' = m.bootrom_lock
    /\ rom' = m.rom
    /\ ram' = m.ram
    /\ mbc0_ram' = m.mbc0_ram
    /\ zero_page_ram' = m.zero_page_ram
    /\ interrupt_flags' = m.interrupt_flags
    /\ lockWrites' = m.lockWrites
    /\ graphics_ram' = m.graphics_ram
    /\ scroll_y' = m.scroll_y
    /\ fault' = IF m.ok THEN fault ELSE "panic"
    /\ UNCHANGED <<bootrom, mode, modeclock, line, scroll_x, frame>>

\* Addresses and values of the memory decoder's calls: one or two addresses of
\* every range the decoder tells apart.
WriteAddrs ==
    {0, 80, 16384, 32768, 40960, 49152, 57344, 65024, 65184, 65280, 65295, 65344,
     65346, 65347, 65360, 65408}
ReadAddrs ==
    {0, 80, 255, 256, 32768, 40960, 49152, 57344, 65024, 65184, 65280, 65344,
     65345, 65346, 65348, 65360, 65408}
WriteVals == {0, 1, 2}
\* Writes to GPU addresses made while the PPU runs: the first row of the data
\* of tile 0, the tile every entry of the zeroed tile map names.
GpuWriteAddrs == {32768}
GpuWriteVals == {128}

\* The emulation thread calls write_byte(address, val).
MmuWrite ==
    /\ fault = "none"
    /\ ppc = "run"
    /\ \E address \in WriteAddrs, val \in WriteVals :
        /\ Store(WriteByte(Memory, address, val))
        /\ lastOp' = [kind |-> "write", address |-> address, val |-> val,
                      lockBefore |-> bootrom_lock]
    /\ UNCHANGED <<syncVars, ghostVars, cpuVars>>

\* The emulation thread calls read_byte(address).
MmuRead ==
    /\ fault = "none"
    /\ ppc = "run"
    /\ \E address \in ReadAddrs :
        LET r == ReadByte(Memory, address) IN
        /\ fault' = IF r.ok THEN fault ELSE "panic"
        /\ lastOp' = [kind |-> "read", address |-> address, val |-> r.val,
                      lockBefore |-> bootrom_lock]
    /\ UNCHANGED <<ppuVars, syncVars, ghostVars, rom, bootrom, bootrom_lock, ram,
                   mbc0_ram, zero_page_ram, interrupt_flags, lockWrites, cpuVars>>

\* A write to a GPU address between two calls of step.
GpuWrite ==
    /\ fault = "none"
    /\ ppc = "run"
    /\ gpuWrites < MaxGpuWrites
    /\ gpuWrites' = gpuWrites + 1
    /\ \E address \in GpuWriteAddrs, val \in GpuWriteVals :
        Store(WriteByte(Memory, address, val))
    /\ UNCHANGED <<syncVars, painted, published, sentAtLine, script, lastOp, cpuVars>>

NextMmu ==
    \/ MmuWrite
    \/ MmuRead

SpecMmu == Init /\ [][NextMmu]_vars

NextFrame ==
    \/ StepCoarse
    \/ GpuWrite
    \/ StepLock
    \/ SpuriousWake
    \/ RenderFrameClear
    \/ RenderFrameSend
    \/ ConsumerRecv
    \/ ConsumerAck
    \/ ConsumerNotify

SpecFrame == InitSynced /\ [][NextFrame]_vars

\* The scheduler runs each thread that can take a step; a wait is not a step.
Fairness ==
    /\ WF_vars(StepLock)
    /\ WF_vars(RenderFrameClear)
    /\ WF_vars(RenderFrameSend)
    /\ WF_vars(ConsumerRecv)
    /\ WF_vars(ConsumerAck)
    /\ WF_vars(ConsumerNotify)

NextLive ==
    \/ StepCoarse
    \/ StepLock
    \/ SpuriousWake
    \/ RenderFrameClear
    \/ RenderFrameSend
    \/ ConsumerRecv
    \/ ConsumerAck
    \/ ConsumerNotify

SpecLive == InitSynced /\ [][NextLive]_vars /\ Fairness

(***************************************************************************)
(* The CPU core (emulator.rs): bytes, flags and register pairs.            *)
(***************************************************************************)
\* The byte whose bit i is B(i).
FromBits(B(_)) ==
    B(0) + 2 * B(1) + 4 * B(2) + 8 * B(3) + 16 * B(4) + 32 * B(5) + 64 * B(6)
        + 128 * B(7)

BitAnd(x, y) == FromBits(LAMBDA i : BitOf(x, i) * BitOf(y, i))
BitOr(x, y) == FromBits(LAMBDA i : IF BitOf(x, i) + BitOf(y, i) > 0 THEN 1 ELSE 0)
BitXor(x, y) == FromBits(LAMBDA i : (BitOf(x, i) + BitOf(y, i)) % 2)
BitNot(x) == 255 - x

\* enum CpuFlag
FlagC == 16
FlagH == 32
FlagN == 64
FlagZ == 128

af(r) == r.a * 256 + r.f
bc(r) == r.b * 256 + r.c
de(r) == r.d * 256 + r.e
hl(r) == r.h * 256 + r.l

\* set_af that keeps only the flag bits of the low byte.
set_af_masked(r, val) == [r EXCEPT !.a = val \div 256, !.f = BitAnd(val % 256, 240)]
\* set_af: the low byte of val is stored into f as it is.
set_af(r, val) == [r EXCEPT !.a = val \div 256, !.f = val % 256]
set_bc(r, val) == [r EXCEPT !.b = val \div 256, !.c = val % 256]
set_de(r, val) == [r EXCEPT !.d = val \div 256, !.e = val % 256]
set_hl(r, val) == [r EXCEPT !.h = val \div 256, !.l = val % 256]

set_flag(r, fl, val) ==
    [r EXCEPT !.f = IF val THEN BitOr(@, fl) ELSE BitAnd(@, BitNot(fl))]

flag(r, fl) == BitAnd(r.f, fl) # 0

\* self.f &= 0b00001111
clear_flags(r) == [r EXCEPT !.f = BitAnd(@, 15)]

\* x + n and x - n on u16: a build with overflow checks panics when the result
\* leaves 0..65535, a build without them wraps.
Add16(x, n) == [ok |-> (x + n <= 65535) \/ ~overflow_checks, val |-> (x + n) % 65536]
Sub16(x, n) == [ok |-> (x - n >= 0) \/ ~overflow_checks, val |-> (x - n + 65536) % 65536]
\* An address that was not computed by an addition.
Plain(x) == [ok |-> TRUE, val |-> x]

\* wrapping_add and wrapping_sub on u8 and u16.
Wrap8(x) == (x + 256) % 256
Wrap16(x) == (x + 65536) % 65536
\* tmp as i8 as u16, as the signed number it adds.
Signed8(tmp) == IF tmp >= 128 THEN tmp - 256 ELSE tmp

\* The arithmetic overflow panic, seen as a failed decoder call.
Overflow(m) == [m EXCEPT !.ok = FALSE, !.cause = "overflow"]

\* The result x of read_byte with the reason of its failure.
Access(x) == [ok |-> x.ok, val |-> x.val, cause |-> IF x.ok THEN "none" ELSE "access"]

\* read_byte at an address that may have overflowed; cause tells why it failed.
Fetch(m, a) ==
    IF ~a.ok
    THEN [ok |-> FALSE, val |-> 0, cause |-> "overflow"]
    ELSE Access(ReadByte(m, a.val))

\* lo | hi << 8, each read ending read_word when it fails.
WordOf(lo, hi) ==
    IF ~lo.ok THEN lo
    ELSE IF ~hi.ok THEN hi
    ELSE [ok |-> TRUE, val |-> lo.val + 256 * hi.val, cause |-> "none"]

\* Mmu::read_word
ReadWord(m, a) == WordOf(Fetch(m, a), Fetch(m, Add16(a.val, 1)))

\* The second write_byte of write_word, at address + 1.
WriteHigh(m1, hi, val) ==
    IF ~m1.ok THEN m1
    ELSE IF ~hi.ok THEN Overflow(m1)
    ELSE WriteByte(m1, hi.val, val)

\* Mmu::write_word
WriteWord(m, address, val) ==
    WriteHigh(WriteByte(m, address, val % 256), Add16(address, 1), val \div 256)

(***************************************************************************)
(* The ALU.  An operation takes the register file and gives the register    *)
(* file after it; alu_inc8 and alu_dec8 also give their result.             *)
(***************************************************************************)
\* An increment that sets Z on a zero result and never clears it.
alu_inc8_sticky_zero(r, val) ==
    LET res == Wrap8(val + 1)
        r1 == set_flag(r, FlagN, FALSE)
    IN  [r |-> IF res = 0 THEN set_flag(r1, FlagZ, TRUE) ELSE r1, res |-> res]

alu_inc8(r, val) ==
    LET res == Wrap8(val + 1)
        r1 == set_flag(set_flag(r, FlagN, FALSE), FlagZ, res = 0)
    IN  [r |-> IF res % 32 = 16 THEN set_flag(r1, FlagH, TRUE) ELSE r1, res |-> res]

\* A decrement that stops at zero in place of wrapping_sub(1).
alu_dec8_saturating(r, val) ==
    LET res == IF val = 0 THEN 0 ELSE val - 1
    IN  [r |-> set_flag(set_flag(r, FlagN, TRUE), FlagZ, res = 0), res |-> res]

alu_dec8(r, val) ==
    LET res == Wrap8(val - 1)
        r1 == set_flag(set_flag(r, FlagN, TRUE), FlagZ, res = 0)
    IN  [r |-> IF res % 32 = 15 THEN set_flag(r1, FlagH, TRUE) ELSE r1, res |-> res]

alu_add_hl(r, val) ==
    LET r1 == set_flag(r, FlagN, FALSE)
        r2 == set_flag(r1, FlagC, val + hl(r) >= 65536)
        r3 == set_flag(r2, FlagH, val + hl(r) >= 4096)
    IN  set_hl(r3, Wrap16(val + hl(r)))

alu_set_zero_flag(r) == set_flag(r, FlagZ, r.a = 0)

\* An addition that stops at 255 in place of wrapping_add.
alu_add_saturating(r, val) ==
    LET r1 == set_flag(r, FlagN, FALSE)
        r2 == set_flag(r1, FlagC, val + r.a >= 256)
        r3 == set_flag(r2, FlagH, val + r.a >= 16)
    IN  alu_set_zero_flag([r3 EXCEPT !.a = IF val + r.a >= 256 THEN 255 ELSE val + r.a])

alu_add(r, val) ==
    LET r1 == set_flag(r, FlagN, FALSE)
        r2 == set_flag(r1, FlagC, val + r.a >= 256)
        r3 == set_flag(r2, FlagH, val + r.a >= 16)
    IN  alu_set_zero_flag([r3 EXCEPT !.a = Wrap8(val + r.a)])

alu_adc(r, val) == alu_add(r, IF flag(r, FlagC) THEN Wrap8(val + 1) ELSE val)

alu_sub(r, val) ==
    LET r1 == set_flag(r, FlagN, TRUE)
        r2 == set_flag(r1, FlagC, val > r.a)
        r3 == set_flag(r2, FlagH, val + r.a >= 16)
    IN  alu_set_zero_flag([r3 EXCEPT !.a = Wrap8(r.a - val)])

alu_sbc(r, val) == alu_sub(r, IF flag(r, FlagC) THEN Wrap8(val + 1) ELSE val)

alu_and(r, val) ==
    LET r1 == set_flag(set_flag(set_flag(r, FlagN, FALSE), FlagH, TRUE), FlagC, FALSE)
    IN  alu_set_zero_flag([r1 EXCEPT !.a = BitAnd(r.a, val)])

alu_xor(r, val) ==
    LET r1 == set_flag(set_flag(set_flag(r, FlagN, FALSE), FlagH, TRUE), FlagC, FALSE)
    IN  alu_set_zero_flag([r1 EXCEPT !.a = BitXor(r.a, val)])

alu_or(r, val) ==
    LET r1 == set_flag(set_flag(set_flag(r, FlagN, FALSE), FlagH, FALSE), FlagC, FALSE)
    IN  alu_set_zero_flag([r1 EXCEPT !.a = BitOr(r.a, val)])

alu_cp(r, val) ==
    LET r1 == set_flag(r, FlagN, TRUE)
        r2 == set_flag(r1, FlagC, val > r.a)
        r3 == set_flag(r2, FlagH, val + r.a >= 16)
    IN  set_flag(r3, FlagZ, Wrap8(r.a - val) = 0)

\* alu_rl, alu_swap, alu_srl and bit: the byte they store and the carry.
RlOf(r, val) == [val |-> ((val * 2) % 256) + (IF flag(r, FlagC) THEN 1 ELSE 0),
                 carry |-> val >= 128]
SwapOf(val) == [val |-> (val \div 16) + ((val % 16) * 16), carry |-> FALSE]
SrlOf(val) == [val |-> val \div 2, carry |-> val % 2 = 1]

\* bit(val, n)
bit(r, val, n) == set_flag(r, FlagZ, BitOf(val, n) = 0)

(***************************************************************************)
(* Emulator::run: the decode arms.  An arm takes the register file r and    *)
(* the memory m and gives the register file and memory after it, its        *)
(* (bytes_read, machine_cycles) pair and how it ended: out is "next" when    *)
(* the loop goes on, "Stop" or "Halt" for a return of run(), and "panic"     *)
(* when the arm panicked, cause telling why.                               *)
(***************************************************************************)
Done(r, m, bytes_read, machine_cycles) ==
    [r |-> r, m |-> m, bytes |-> bytes_read, cycles |-> machine_cycles,
     out |-> IF m.ok THEN "next" ELSE "panic", cause |-> m.cause]

Abort(r, m, cause) ==
    [r |-> r, m |-> m, bytes |-> 0, cycles |-> 0, out |-> "panic", cause |-> cause]

\* return Err(e)
Leave(r, m, e) ==
    [r |-> r, m |-> m, bytes |-> 0, cycles |-> 0, out |-> e, cause |-> "none"]

\* The ? and the panics of a read: the arm goes on as Rest(v) only when v was
\* read.
Need(v, r, m, Rest(_)) == IF v.ok THEN Rest(v) ELSE Abort(r, m, v.cause)

\* read_byte(pc) in place of read_byte(pc + 1).
Imm8AtPc(r, m) == Fetch(m, Plain(r.pc))
\* self.memory.read_byte(self.regs.pc + 1)
Imm8(r, m) == Fetch(m, Add16(r.pc, 1))
\* self.memory.read_word(self.regs.pc + 1)
Imm16(r, m) == ReadWord(m, Add16(r.pc, 1))

\* The register table of the low three bits of an opcode (6 is (HL)).
GetReg(r, i) ==
    CASE i = 0 -> r.b
      [] i = 1 -> r.c
      [] i = 2 -> r.d
      [] i = 3 -> r.e
      [] i = 4 -> r.h
      [] i = 5 -> r.l
      [] i = 7 -> r.a

PutReg(r, i, v) ==
    CASE i = 0 -> [r EXCEPT !.b = v]
      [] i = 1 -> [r EXCEPT !.c = v]
      [] i = 2 -> [r EXCEPT !.d = v]
      [] i = 3 -> [r EXCEPT !.e = v]
      [] i = 4 -> [r EXCEPT !.h = v]
      [] i = 5 -> [r EXCEPT !.l = v]
      [] i = 7 -> [r EXCEPT !.a = v]

\* The register pairs BC, DE, HL and SP of the opcodes 0x01..0x3B, by bits 4-5.
GetPair(r, i) ==
    CASE i = 0 -> bc(r)
      [] i = 1 -> de(r)
      [] i = 2 -> hl(r)
      [] i = 3 -> r.sp

PutPair(r, i, val) ==
    CASE i = 0 -> set_bc(r, val)
      [] i = 1 -> set_de(r, val)
      [] i = 2 -> set_hl(r, val)
      [] i = 3 -> [r EXCEPT !.sp = val]

\* The conditions NZ, Z, NC, C of the conditional arms.
Cond(r, k) ==
    CASE k = 0 -> ~flag(r, FlagZ)
      [] k = 1 -> flag(r, FlagZ)
      [] k = 2 -> ~flag(r, FlagC)
      [] k = 3 -> flag(r, FlagC)

\* push16 once sp - 2 is computed: the register file and the memory after it.
PushAt(sp, r, m, val) ==
    IF ~sp.ok THEN [r |-> r, m |-> Overflow(m)]
    ELSE [r |-> [r EXCEPT !.sp = sp.val], m |-> WriteWord(m, sp.val, val)]

\* push16
push16(r, m, val) == PushAt(Sub16(r.sp, 2), r, m, val)

\* pop16 once the word is read and sp + 2 is computed.
PopAt(res, sp, r) ==
    IF ~res.ok THEN [ok |-> FALSE, val |-> 0, cause |-> res.cause, r |-> r]
    ELSE IF ~sp.ok THEN [ok |-> FALSE, val |-> 0, cause |-> "overflow", r |-> r]
    ELSE [ok |-> TRUE, val |-> res.val, cause |-> "none",
          r |-> [r EXCEPT !.sp = sp.val]]

\* pop16: the word read, and the register file after it.
pop16(r, m) == PopAt(ReadWord(m, Plain(r.sp)), Add16(r.sp, 2), r)

\* 0x01, 0x11, 0x21, 0x31: LD rr, d16.
LdPairImm(r, m, instr) ==
    Need(Imm16(r, m), r, m, LAMBDA v : Done(PutPair(r, instr \div 16, v.val), m, 3, 3))

\* 0x02, 0x12: LD (BC), A and LD (DE), A.
LdIndA(r, m, instr) == Done(r, WriteByte(m, GetPair(r, instr \div 16), r.a), 1, 2)

\* 0x0A, 0x1A: LD A, (BC) and LD A, (DE).
LdAInd(r, m, instr) ==
    Need(Fetch(m, Plain(GetPair(r, instr \div 16))), r, m,
         LAMBDA v : Done([r EXCEPT !.a = v.val], m, 1, 2))

\* 0x03, 0x13, 0x23, 0x33: INC rr.
IncPair(r, m, instr) ==
    Done(PutPair(r, instr \div 16, Wrap16(GetPair(r, instr \div 16) + 1)), m, 1, 2)

\* 0x0B, 0x1B, 0x2B, 0x3B: DEC rr.
DecPair(r, m, instr) ==
    Done(PutPair(r, instr \div 16, Wrap16(GetPair(r, instr \div 16) - 1)), m, 1, 2)

\* The register i takes the result of alu_inc8 or alu_dec8.
PutResult(x, i) == PutReg(x.r, i, x.res)

\* 0x04, 0x0C, ..., 0x3C: INC r.
IncReg(r, m, instr) ==
    Done(PutResult(alu_inc8(r, GetReg(r, instr \div 8)), instr \div 8), m, 1, 1)

\* 0x05, 0x0D, ..., 0x3D: DEC r.
DecReg(r, m, instr) ==
    Done(PutResult(alu_dec8(r, GetReg(r, instr \div 8)), instr \div 8), m, 1, 1)

\* The byte at (HL) takes the result of alu_inc8 or alu_dec8.
StoreResult(x, r, m) == Done(x.r, WriteByte(m, hl(r), x.res), 1, 3)

\* 0x34: INC (HL).
IncHl(r, m) ==
    Need(Fetch(m, Plain(hl(r))), r, m,
         LAMBDA v : StoreResult(alu_inc8(r, v.val), r, m))

\* 0x35: DEC (HL).
DecHl(r, m) ==
    Need(Fetch(m, Plain(hl(r))), r, m,
         LAMBDA v : StoreResult(alu_dec8(r, v.val), r, m))

\* 0x06, 0x0E, ..., 0x3E: LD r, d8.
LdRegImm(r, m, instr) ==
    Need(Imm8(r, m), r, m, LAMBDA v : Done(PutReg(r, instr \div 8, v.val), m, 2, 2))

\* 0x36: LD (HL), d8.
LdHlImm(r, m) ==
    Need(Imm8(r, m), r, m, LAMBDA v : Done(r, WriteByte(m, hl(r), v.val), 2, 3))

\* The flags of RLCA, RRCA and RRA: all cleared, then the carry.
CarryOnly(r, carry) == set_flag(clear_flags(r), FlagC, carry)

\* 0x07: RLCA.
Rlca(r, m) ==
    Done(CarryOnly([r EXCEPT !.a = ((@ * 2) % 256) + (IF @ >= 128 THEN 1 ELSE 0)],
                   r.a >= 128), m, 1, 1)

\* 0x0F: RRCA.
Rrca(r, m) ==
    Done(CarryOnly([r EXCEPT !.a = (@ \div 2) + (IF @ % 2 = 1 THEN 128 ELSE 0)],
                   r.a % 2 = 1), m, 1, 1)

\* The flags after alu_rl, alu_swap and alu_srl have stored their result.
RotateFlags(r, x) == set_flag(set_flag(clear_flags(r), FlagC, x.carry), FlagZ, x.val = 0)

\* alu_rl on register A.
RlA(r, x) == RotateFlags([r EXCEPT !.a = x.val], x)

\* 0x17: RLA.
Rla(r, m) == Done(set_flag(RlA(r, RlOf(r, r.a)), FlagZ, FALSE), m, 1, 1)

\* 0x1F: RRA.
Rra(r, m) == Done(CarryOnly([r EXCEPT !.a = @ \div 2], r.a % 2 = 1), m, 1, 1)

\* 0x08: LD (a16), SP, which loads SP with the immediate word.
LdA16Sp(r, m) ==
    Need(Imm16(r, m), r, m, LAMBDA v : Done([r EXCEPT !.sp = v.val], m, 3, 5))

\* 0x09, 0x19, 0x29, 0x39: ADD HL, rr.
AddHlPair(r, m, instr) == Done(alu_add_hl(r, GetPair(r, instr \div 16)), m, 1, 2)

\* 0x18: JR r8, and the taken branch of JR cc, r8.
JrTaken(r, m) ==
    Need(Imm8(r, m), r, m,
         LAMBDA tmp : Done([r EXCEPT !.pc = Wrap16(@ + Signed8(tmp.val))], m, 2, 3))

\* 0x20, 0x28, 0x30, 0x38: JR cc, r8.
JrCond(r, m, instr) ==
    IF Cond(r, (instr - 32) \div 8) THEN JrTaken(r, m) ELSE Done(r, m, 2, 2)

\* 0x22, 0x32: LD (HL+), A and LD (HL-), A.
LdHlStepA(r, m, delta) ==
    Done(set_hl(r, Wrap16(hl(r) + delta)), WriteByte(m, hl(r), r.a), 1, 2)

\* 0x2A, 0x3A: LD A, (HL+) and LD A, (HL-).
LdAHlStep(r, m, delta) ==
    Need(Fetch(m, Plain(hl(r))), r, m,
         LAMBDA v : Done(set_hl([r EXCEPT !.a = v.val], Wrap16(hl(r) + delta)), m, 1, 2))

\* 0x2F: CPL.
Cpl(r, m) ==
    Done(set_flag(set_flag([r EXCEPT !.a = BitNot(r.a)], FlagN, TRUE), FlagH, TRUE),
         m, 1, 1)

\* 0x37: SCF.
Scf(r, m) ==
    Done(set_flag(set_flag(set_flag(r, FlagN, FALSE), FlagH, FALSE), FlagC, TRUE),
         m, 1, 1)

\* 0x3F: CCF.
Ccf(r, m) ==
    Done(set_flag(set_flag(set_flag(r, FlagN, FALSE), FlagH, FALSE), FlagC,
                  ~flag(r, FlagC)), m, 1, 1)

\* The source operand of the arms 0x40..0xBF: a register or the byte at (HL).
SrcOperand(r, m, instr) ==
    IF instr % 8 = 6 THEN Fetch(m, Plain(hl(r)))
    ELSE [ok |-> TRUE, val |-> GetReg(r, instr % 8), cause |-> "none"]

\* 0x40..0x6F and 0x78..0x7F: LD r8, r8.
LdRegReg(r, m, instr) ==
    Need(SrcOperand(r, m, instr), r, m,
         LAMBDA src : Done(PutReg(r, (instr - 64) \div 8, src.val), m, 1,
                           IF instr % 8 = 6 THEN 2 ELSE 1))

\* 0x70..0x77: LD (HL), r8, with HALT at 0x76.
LdHlReg(r, m, instr) ==
    IF instr % 8 = 6 THEN Leave(r, m, "Halt")
    ELSE Done(r, WriteByte(m, hl(r), GetReg(r, instr % 8)), 1, 2)

\* The ALU operation of the arms 0x80..0xBF and of their d8 forms, by bits 3-5.
AluOp(r, k, src) ==
    CASE k = 0 -> alu_add(r, src)
      [] k = 1 -> alu_adc(r, src)
      [] k = 2 -> alu_sub(r, src)
      [] k = 3 -> alu_sbc(r, src)
      [] k = 4 -> alu_and(r, src)
      [] k = 5 -> alu_xor(r, src)
      [] k = 6 -> alu_or(r, src)
      [] k = 7 -> alu_cp(r, src)

\* 0x80..0xBF: ADD, ADC, SUB, SBC, AND, XOR, OR, CP with a register or (HL).
AluReg(r, m, instr) ==
    Need(SrcOperand(r, m, instr), r, m,
         LAMBDA src : Done(AluOp(r, (instr - 128) \div 8, src.val), m, 1,
                           IF instr % 8 = 6 THEN 2 ELSE 1))

\* 0xC6, 0xCE, ..., 0xFE: the ALU operations with d8.
AluImm(r, m, instr) ==
    Need(Imm8(r, m), r, m,
         LAMBDA src : Done(AluOp(r, (instr - 198) \div 8, src.val), m, 2, 2))

\* 0xC9, 0xD9 and the taken branch of RET cc.
RetTaken(r, m, machine_cycles) ==
    Need(pop16(r, m), r, m,
         LAMBDA p : Done([p.r EXCEPT !.pc = p.val], m, 0, machine_cycles))

\* 0xC0, 0xC8, 0xD0, 0xD8: RET cc.
RetCond(r, m, instr) ==
    IF Cond(r, (instr - 192) \div 8) THEN RetTaken(r, m, 5) ELSE Done(r, m, 1, 2)

\* 0xC1, 0xD1, 0xE1: POP BC, POP DE, POP HL.
PopPair(r, m, instr) ==
    Need(pop16(r, m), r, m,
         LAMBDA p : Done(PutPair(p.r, (instr - 193) \div 16, p.val), m, 1, 3))

\* 0xF1: POP AF.
PopAf(r, m) ==
    Need(pop16(r, m), r, m, LAMBDA p : Done(set_af(p.r, p.val), m, 1, 3))

\* The arm of a PUSH, p being what push16 gave.
Pushed(p) == Done(p.r, p.m, 1, 4)

\* 0xC5, 0xD5, 0xE5, 0xF5: PUSH BC, PUSH DE, PUSH HL, PUSH AF.
PushPair(r, m, instr) ==
    Pushed(push16(r, m, IF instr = 245 THEN af(r)
                        ELSE GetPair(r, (instr - 197) \div 16)))

\* 0xC3 and the taken branch of JP cc, a16: PC is loaded and the arm still
\* reports three bytes read.
JpTaken(r, m) ==
    Need(Imm16(r, m), r, m, LAMBDA v : Done([r EXCEPT !.pc = v.val], m, 3, 4))

\* 0xC2, 0xCA, 0xD2, 0xDA: JP cc, a16.
JpCond(r, m, instr) ==
    IF Cond(r, (instr - 194) \div 8) THEN JpTaken(r, m) ELSE Done(r, m, 3, 3)

\* CALL after push16 gave p: PC is loaded with the immediate word.
CallJump(p, r, m) ==
    IF ~p.m.ok THEN Abort(r, m, p.m.cause)
    ELSE Need(Imm16(r, p.m), r, m, LAMBDA v : Done([p.r EXCEPT !.pc = v.val], p.m, 0, 6))

\* CALL once pc + 2 is computed: push16(pc + 2), then the jump.
CallPush(ret, r, m) ==
    IF ~ret.ok THEN Abort(r, m, "overflow")
    ELSE CallJump(push16(r, m, ret.val), r, m)

\* 0xCD and the taken branch of CALL cc, a16.
CallTaken(r, m) == CallPush(Add16(r.pc, 2), r, m)

\* 0xC4, 0xCC, 0xD4, 0xDC: CALL cc, a16.
CallCond(r, m, instr) ==
    IF Cond(r, (instr - 196) \div 8) THEN CallTaken(r, m) ELSE Done(r, m, 3, 3)

\* 0xC7, 0xCF, ..., 0xFF: RST n, which loads PC and pushes nothing.
Rst(r, m, instr) == Done([r EXCEPT !.pc = instr - 199], m, 1, 4)

\* 0xE0: LDH (a8), A.
LdhA8A(r, m) ==
    Need(Imm8(r, m), r, m, LAMBDA v : Done(r, WriteByte(m, 65280 + v.val, r.a), 2, 3))

\* LD A with the byte at address, the arm reporting (bytes_read, machine_cycles).
LdAFrom(r, m, address, bytes_read, machine_cycles) ==
    Need(Fetch(m, Plain(address)), r, m,
         LAMBDA v : Done([r EXCEPT !.a = v.val], m, bytes_read, machine_cycles))

\* 0xF0: LDH A, (a8).
LdhAA8(r, m) ==
    Need(Imm8(r, m), r, m, LAMBDA tmp : LdAFrom(r, m, 65280 + tmp.val, 2, 3))

\* 0xE2: LD (C), A.
LdCA(r, m) == Done(r, WriteByte(m, 65280 + r.c, r.a), 1, 2)

\* 0xF2: LD A, (C).
LdAC(r, m) == LdAFrom(r, m, 65280 + r.c, 1, 2)

\* 0xEA: LD (a16), A.
LdA16A(r, m) ==
    Need(Imm16(r, m), r, m,
         LAMBDA address : Done(r, WriteByte(m, address.val, r.a), 3, 4))

\* 0xFA: LD A, (a16).
LdAA16(r, m) ==
    Need(Imm16(r, m), r, m, LAMBDA address : LdAFrom(r, m, address.val, 3, 4))

\* The flags of ADD SP, r8 and LD HL, SP+r8.
SpOffsetFlags(r, val) ==
    set_flag(set_flag(set_flag(set_flag(r, FlagN, FALSE), FlagZ, FALSE),
                      FlagC, val + r.sp >= 256),
             FlagH, val + r.sp >= 16)

\* 0xE8: ADD SP, r8.
AddSpR8(r, m) ==
    Need(Imm8(r, m), r, m,
         LAMBDA val : Done([SpOffsetFlags(r, val.val) EXCEPT
                                !.sp = Wrap16(r.sp + val.val)], m, 2, 4))

\* 0xF8: LD HL, SP+r8.
LdHlSpR8(r, m) ==
    Need(Imm8(r, m), r, m,
         LAMBDA val : Done(set_hl(SpOffsetFlags(r, val.val), Wrap16(r.sp + val.val)),
                           m, 2, 3))

\* 0xE9: JP (HL), which loads PC with the word at (HL).
JpHl(r, m) ==
    Need(ReadWord(m, Plain(hl(r))), r, m,
         LAMBDA v : Done([r EXCEPT !.pc = v.val], m, 1, 1))

\* 0xF9: LD SP, HL.
LdSpHl(r, m) == Done([r EXCEPT !.sp = hl(r)], m, 1, 2)

\* An opcode without an arm, executed as NOP.
UnknownInstrAsNop(r, m) == Done(r, m, 1, 1)
\* unreachable!("Unknown instruction"), the panic of DAA, and the panic of the
\* unimplemented sub-opcodes of PREFIX CB.
UnknownInstr(r, m) == Abort(r, m, "opcode")

\* The length of Mmu.rom: vec![0; 32768].
RomSize == 32768

\* The operand of a PREFIX CB sub-opcode: a register, or for index 6 the byte
\* get_mut_ref_byte(hl) refers to, rom[hl]; indexing past rom panics.
CbOperand(r, m, subinstr) ==
    IF subinstr % 8 = 6
    THEN IF hl(r) < RomSize
         THEN [ok |-> TRUE, val |-> ByteAt(m.rom, hl(r)), cause |-> "none"]
         ELSE [ok |-> FALSE, val |-> 0, cause |-> "index"]
    ELSE [ok |-> TRUE, val |-> GetReg(r, subinstr % 8), cause |-> "none"]

\* alu_rl, alu_swap or alu_srl through the reference the operand accessor
\* gave: x.val is stored into the register or into rom[hl], then the flags.
CbStore(r, m, subinstr, x, machine_cycles) ==
    IF subinstr % 8 = 6
    THEN Done(RotateFlags(r, x), [m EXCEPT !.rom = SetByte(@, hl(r), x.val)], 2,
              machine_cycles)
    ELSE Done(RotateFlags(PutReg(r, subinstr % 8, x.val), x), m, 2, machine_cycles)

\* The sub-opcode families PREFIX CB implements: RL, SWAP, SRL and BIT 7.
CbImplemented == {16, 48, 56, 120}

\* The match of PREFIX CB on subinstr & 0b11111000.
CbFamily(r, m, subinstr, family, val, machine_cycles) ==
    CASE family = 120 -> Done(bit(r, val, 7), m, 2, machine_cycles)
      [] family = 16 -> CbStore(r, m, subinstr, RlOf(r, val), machine_cycles)
      [] family = 48 -> CbStore(r, m, subinstr, SwapOf(val), machine_cycles)
      [] family = 56 -> CbStore(r, m, subinstr, SrlOf(val), machine_cycles)

\* PREFIX CB once the sub-opcode is read.
CbArm(r, m, subinstr) ==
    IF (subinstr - (subinstr % 8)) \notin CbImplemented THEN UnknownInstr(r, m)
    ELSE Need(CbOperand(r, m, subinstr), r, m,
              LAMBDA operand :
                  CbFamily(r, m, subinstr, subinstr - (subinstr % 8), operand.val,
                           IF subinstr % 8 = 6 THEN 4 ELSE 2))

\* 0xCB: PREFIX CB.
PrefixCb(r, m) == Need(Imm8(r, m), r, m, LAMBDA sub : CbArm(r, m, sub.val))

\* Opcode sets of the arms that are told apart by a bit pattern.
OpIncReg == {4, 12, 20, 28, 36, 44, 60}
OpDecReg == {5, 13, 21, 29, 37, 45, 61}
OpLdRegImm == {6, 14, 22, 30, 38, 46, 62}
OpLdRegReg == (64..111) \cup (120..127)
OpAluImm == {198, 206, 214, 222, 230, 238, 246, 254}
OpRst == {199, 207, 215, 223, 231, 239, 247, 255}

\* The match of run() on the opcode.
Decode(r, m, instr) ==
    CASE instr = 0 -> Done(r, m, 1, 1)
      [] instr \in {1, 17, 33, 49} -> LdPairImm(r, m, instr)
      [] instr \in {2, 18} -> LdIndA(r, m, instr)
      [] instr \in {3, 19, 35, 51} -> IncPair(r, m, instr)
      [] instr \in OpIncReg -> IncReg(r, m, instr)
      [] instr \in OpDecReg -> DecReg(r, m, instr)
      [] instr \in OpLdRegImm -> LdRegImm(r, m, instr)
      [] instr = 7 -> Rlca(r, m)
      [] instr = 8 -> LdA16Sp(r, m)
      [] instr \in {9, 25, 41, 57} -> AddHlPair(r, m, instr)
      [] instr \in {10, 26} -> LdAInd(r, m, instr)
      [] instr \in {11, 27, 43, 59} -> DecPair(r, m, instr)
      [] instr = 15 -> Rrca(r, m)
      [] instr = 16 -> Leave(r, m, "Stop")
      [] instr = 23 -> Rla(r, m)
      [] instr = 24 -> JrTaken(r, m)
      [] instr = 31 -> Rra(r, m)
      [] instr \in {32, 40, 48, 56} -> JrCond(r, m, instr)
      [] instr = 34 -> LdHlStepA(r, m, 1)
      [] instr = 39 -> UnknownInstr(r, m)
      [] instr = 42 -> LdAHlStep(r, m, 1)
      [] instr = 47 -> Cpl(r, m)
      [] instr = 50 -> LdHlStepA(r, m, -1)
      [] instr = 52 -> IncHl(r, m)
      [] instr = 53 -> DecHl(r, m)
      [] instr = 54 -> LdHlImm(r, m)
      [] instr = 55 -> Scf(r, m)
      [] instr = 58 -> LdAHlStep(r, m, -1)
      [] instr = 63 -> Ccf(r, m)
      [] instr \in OpLdRegReg -> LdRegReg(r, m, instr)
      [] instr \in 112..119 -> LdHlReg(r, m, instr)
      [] instr \in 128..191 -> AluReg(r, m, instr)
      [] instr \in {192, 200, 208, 216} -> RetCond(r, m, instr)
      [] instr \in {193, 209, 225} -> PopPair(r, m, instr)
      [] instr \in {194, 202, 210, 218} -> JpCond(r, m, instr)
      [] instr = 195 -> JpTaken(r, m)
      [] instr \in {196, 204, 212, 220} -> CallCond(r, m, instr)
      [] instr \in {197, 213, 229, 245} -> PushPair(r, m, instr)
      [] instr \in OpAluImm -> AluImm(r, m, instr)
      [] instr \in OpRst -> Rst(r, m, instr)
      [] instr \in {201, 217} -> RetTaken(r, m, 4)
      [] instr = 203 -> PrefixCb(r, m)
      [] instr = 205 -> CallTaken(r, m)
      [] instr = 224 -> LdhA8A(r, m)
      [] instr = 226 -> LdCA(r, m)
      [] instr = 232 -> AddSpR8(r, m)
      [] instr = 233 -> JpHl(r, m)
      [] instr = 234 -> LdA16A(r, m)
      [] instr = 240 -> LdhAA8(r, m)
      [] instr = 241 -> PopAf(r, m)
      [] instr = 242 -> LdAC(r, m)
      [] instr \in {243, 251} -> Done(r, m, 1, 1)
      [] instr = 248 -> LdHlSpR8(r, m)
      [] instr = 249 -> LdSpHl(r, m)
      [] instr = 250 -> LdAA16(r, m)
      [] OTHER -> UnknownInstr(r, m)

(***************************************************************************)
(* Emulator::run: one iteration of the loop.                               *)
(***************************************************************************)
\* The cycle count handed to the PPU without the factor 4.
TicksOfRaw(machine_cycles) == machine_cycles
\* self.memory.gpu.step(machine_cycles * 4)
TicksOf(machine_cycles) == machine_cycles * 4

\* The fetch of the iteration that starts in this state, and its decode arm.
Fetched == Fetch(Memory, Plain(regs.pc))
Execute(op) ==
    IF op.ok THEN Decode(regs, Memory, op.val) ELSE Abort(regs, Memory, op.cause)
Executed == Execute(Fetched)
\* self.regs.pc += bytes_read, after the arm that gave x.
NextPc(x) == Add16(x.r.pc, x.bytes)

\* What the iteration leaves in lastInstr.
InstrRecord(x, out, cause, stepped) ==
    [pc |-> regs.pc, instr |-> Fetched.val,
     sub |-> ReadByte(Memory, (regs.pc + 1) % 65536).val,
     out |-> out, cause |-> cause, bytes |-> x.bytes, cycles |-> x.cycles,
     stepped |-> stepped, before |-> regs, lockBefore |-> bootrom_lock]

RunGuard ==
    /\ exit = "none"
    /\ fault = "none"
    /\ ppc = "run"
    /\ steps < MaxSteps
    /\ steps' = steps + 1

\* The PPU's side of the iteration: step(cycle_nb) on the memory m the arm
\* left, s being what the timing state machine does in this call.
RunGpuStep(m, cycle_nb, s) ==
    /\ mode' = s.mode
    /\ modeclock' = s.modeclock
    /\ line' = s.line
    /\ frame' = IF s.render
                THEN RenderLine(frame, m.graphics_ram, line, scroll_x, m.scroll_y)
                ELSE frame
    /\ fault' = IF s.render /\ line \notin Rows THEN "panic" ELSE fault
    /\ IF s.boundary
       THEN IF WaitsForConsumer
            THEN /\ ppc' = "lock"
                 /\ UNCHANGED <<queue, published, sentAtLine, painted>>
            ELSE /\ ppc' = "run"
                 /\ IF HasSender
                    THEN SendFrame(s.line)
                    ELSE UNCHANGED <<queue, published, sentAtLine, painted>>
       ELSE /\ ppc' = "run"
            /\ painted' = IF s.render THEN painted \cup {line} ELSE painted
            /\ UNCHANGED <<queue, published, sentAtLine>>
    /\ ticks' = ticks + cycle_nb

\* The arm ran to its end and gave x: PC advances by bytes_read and the PPU is
\* stepped on the memory the arm left.
RunNextOf(x, pc, cycle_nb) ==
    /\ x.out = "next"
    /\ pc.ok
    /\ regs' = [x.r EXCEPT !.pc = pc.val]
    /\ bootrom_lock' = x.m.bootrom_lock
    /\ rom' = x.m.rom
    /\ ram' = x.m.ram
    /\ mbc0_ram' = x.m.mbc0_ram
    /\ zero_page_ram' = x.m.zero_page_ram
    /\ interrupt_flags' = x.m.interrupt_flags
    /\ lockWrites' = x.m.lockWrites
    /\ graphics_ram' = x.m.graphics_ram
    /\ scroll_y' = x.m.scroll_y
    /\ RunGpuStep(x.m, cycle_nb, StepTo(mode, modeclock, line, cycle_nb))
    /\ lastInstr' = InstrRecord(x, "next", "none", <<cycle_nb>>)
    /\ UNCHANGED <<bootrom, scroll_x, channel, pair, drawn, cpc, held, script,
                   gpuWrites, lastOp, overflow_checks, exit>>

\* The arm returned Err(VmExit::Stop) or Err(VmExit::Halt): run() returns it.
RunReturnOf(x) ==
    /\ x.out \in {"Stop", "Halt"}
    /\ exit' = x.out
    /\ lastInstr' = InstrRecord(x, x.out, "none", <<>>)
    /\ UNCHANGED <<ppuVars, syncVars, ghostVars, mmuVars, regs, overflow_checks, ticks>>

\* The fetch, the arm or the addition to PC panicked: the thread is gone.
RunPanicOf(x, pc) ==
    /\ \/ x.out = "panic"
       \/ x.out = "next" /\ ~pc.ok
    /\ fault' = "panic"
    /\ lastInstr' = InstrRecord(x, "panic",
                                IF x.out = "panic" THEN x.cause ELSE "overflow", <<>>)
    /\ UNCHANGED <<ppuVars, syncVars, ghostVars, rom, bootrom, bootrom_lock, ram,
                   mbc0_ram, zero_page_ram, interrupt_flags, lastOp, lockWrites,
                   regs, overflow_checks, exit, ticks>>

RunNext ==
    /\ RunGuard
    /\ \E x \in {Executed} : RunNextOf(x, NextPc(x), TicksOf(x.cycles))

RunReturn ==
    /\ RunGuard
    /\ \E x \in {Executed} : RunReturnOf(x)

RunPanic ==
    /\ RunGuard
    /\ \E x \in {Executed} : RunPanicOf(x, NextPc(x))

RunIteration ==
    \/ RunNext
    \/ RunReturn
    \/ RunPanic

(***************************************************************************)
(* The cartridge images the CPU runs.                                      *)
(***************************************************************************)
\* The image that holds bytes from address base on (zero bytes are not kept).
ImageAt(base, bytes) ==
    [a \in {base + i - 1 : i \in {j \in DOMAIN bytes : bytes[j] # 0}}
        |-> bytes[a - base + 1]]

\* LD SP,0xD000; LD HL,0xC010; LD BC,0x0F34; LD A,0x9C: stack and HL in work RAM.
SetupRam == <<49, 0, 208, 33, 16, 192, 1, 52, 15, 62, 156>>
\* LD SP,0xFFFE; LD HL,0x0150; LD BC,0x80FF; LD A,0x0F: stack in high RAM, HL in ROM.
SetupHigh == <<49, 254, 255, 33, 80, 1, 1, 255, 128, 62, 15>>
Setups == {<<>>, SetupRam, SetupHigh}

\* Every opcode, followed by the operand bytes 0x40 0x00.
OpcodeBodies == {<<op, 64, 0>> : op \in 0..255}

\* Stack, memory access, flag-dependent and PREFIX CB instruction sequences.
TargetedBodies ==
    {<<197, 241>>, <<197, 209>>, <<245, 193>>,
     <<234, 0, 64>>, <<234, 0, 160>>, <<234, 0, 224>>, <<234, 0, 192>>,
     <<250, 160, 254>>, <<250, 0, 254>>, <<250, 0, 192>>,
     <<224, 3>>, <<240, 1>>, <<224, 80>>, <<224, 66>>, <<224, 15>>,
     <<175, 202, 64, 0>>, <<55, 218, 64, 0>>, <<55, 220, 64, 0>>,
     <<175, 204, 64, 0>>, <<175, 200>>, <<175, 40, 2>>, <<24, 254>>,
     <<195, 253, 255>>, <<60, 61, 39>>,
     <<49, 2, 160, 1, 52, 18, 197, 209>>, <<49, 0, 32, 1, 52, 18, 197, 209>>,
     <<49, 2, 224, 1, 52, 18, 197, 209>>, <<49, 0, 144, 1, 52, 18, 197, 209>>}
    \cup {<<203, sub>> : sub \in {0, 17, 22, 48, 55, 63, 124, 126, 64, 255}}

\* A subroutine at 0x0040 that returns at once, and HALT at 0x0043.
Subroutine == ImageAt(64, <<201, 0, 0, 118>>)

\* LD HL,0x8002; 22 times LD (a16),SP with the word 0; LD (HL),0x40; HALT.  The
\* 20 ticks of each LD (a16),SP bring the PPU to the end of the pixel transfer
\* of line 1, so that the step after LD (HL),0x40 is the one that renders it.
RenderBody == <<33, 2, 128>> \o [i \in 1..66 |-> IF i % 3 = 1 THEN 8 ELSE 0] \o <<54, 64, 118>>

Programs ==
    {RomImage, ImageAt(0, RenderBody)}
    \cup {ImageAt(0, setup \o body \o <<118>>) @@ Subroutine :
            setup \in Setups, body \in OpcodeBodies \cup TargetedBodies}

\* The memory of Mmu::new after load_rom.
MemoryNew(image) ==
    [rom |-> image, bootrom |-> BootImage, bootrom_lock |-> TRUE, ram |-> NoBytes,
     mbc0_ram |-> NoBytes, zero_page_ram |-> NoBytes, interrupt_flags |-> 0,
     graphics_ram |-> NoBytes, scroll_y |-> 0, mode |-> "HBlank", line |-> 0,
     ok |-> TRUE, lockWrites |-> 0, cause |-> "none"]

\* Emulator::new and load_rom, in either build; the host may unmap the boot
\* overlay with memory.write_byte(0xFF50, 1) before it calls run().
InitRun(programs, builds) ==
    /\ GpuNew
    /\ drawn = FALSE
    /\ queue = <<>>
    /\ ppc = "run"
    /\ cpc = "idle"
    /\ held = <<>>
    /\ painted = {}
    /\ published = 0
    /\ sentAtLine = <<>>
    /\ script = 0
    /\ gpuWrites = 0
    /\ fault = "none"
    /\ lastOp = [kind |-> "none", address |-> 0, val |-> 0, lockBefore |-> TRUE]
    /\ regs = RegistersNew
    /\ overflow_checks \in builds
    /\ CpuIdle
    /\ bootrom = BootImage
    /\ ram = NoBytes
    /\ mbc0_ram = NoBytes
    /\ zero_page_ram = NoBytes
    /\ interrupt_flags = 0
    /\ \E image \in programs, unmap \in BOOLEAN :
        LET m == IF unmap THEN WriteByte(MemoryNew(image), 65360, 1)
                 ELSE MemoryNew(image)
        IN  /\ rom = m.rom
            /\ bootrom_lock = m.bootrom_lock
            /\ lockWrites = m.lockWrites
            /\ unmap \/ image = RomImage

\* The runs of the instruction programs, in both builds.
InitCpu == InitRun(Programs, BOOLEAN)

NextCpu == RunIteration

SpecCpu == InitCpu /\ [][NextCpu]_vars

\* run() is a loop on its own thread: it keeps iterating until it returns.
SpecCpuLive == InitCpu /\ [][NextCpu]_vars /\ WF_vars(RunIteration)

(***************************************************************************)
(* Programs that apply the ALU to chosen operands: LD SP,0x0010; POP AF    *)
(* loads A and F from the ROM bytes at 0x0010 and 0x0011, then come one or  *)
(* two ALU instructions and HALT (or DAA, which is not implemented).        *)
(***************************************************************************)
\* The sixteen states of the flags Z, N, H, C.
FlagStates == {16 * k : k \in 0..15}
\* Carry clear or set with the other flags all clear or all set.
FlagProbe == {0, 16, 224, 240}
\* Operands at the ends and in the middle of the range and around the nibble
\* boundary.
OperandProbe == {0, 1, 15, 16, 127, 128, 240, 255}

AluImage(a, f, body) == ImageAt(0, <<49, 16, 0, 241>> \o body) @@ ImageAt(16, <<f, a>>)

\* INC A; DEC A and DEC A; INC A on every value of A and every flag state.
IncDecPrograms ==
    {AluImage(a, f, body) :
        a \in 0..255, f \in FlagStates, body \in {<<60, 61, 118>>, <<61, 60, 118>>}}

\* ADD A,d8; SUB d8 on every value of A.
AddSubPrograms ==
    {AluImage(a, f, <<198, b, 214, b, 118>>) :
        a \in 0..255, b \in OperandProbe, f \in {0, 240}}

\* ADC, SBC, AND, XOR and OR with d8, and ADD and SUB alone.
SingleOpPrograms ==
    {AluImage(a, f, <<op, b, 118>>) :
        a \in OperandProbe, b \in OperandProbe, f \in FlagProbe,
        op \in {198, 206, 214, 222, 230, 238, 246}}

AluPrograms ==
    IncDecPrograms \cup AddSubPrograms \cup SingleOpPrograms
    \cup {AluImage(a, 0, <<60, 39>>) : a \in {0, 255}}

InitAlu == InitRun(AluPrograms, {TRUE})

SpecAlu == InitAlu /\ [][NextCpu]_vars

(***************************************************************************)
(* The calls of step with their amounts counted in ticks, over one frame:  *)
(* at first a call takes any amount, later the amount that completes the    *)
(* current mode, or a part of it during VBlank.                             *)
(***************************************************************************)
ThresholdOf(m) ==
    CASE m = "OAMAccess" -> OamThreshold
      [] m = "VRAMAccess" -> VramThreshold
      [] m = "HBlank" -> HBlankThreshold
      [] m = "VBlank" -> VBlankThreshold

StepAmounts(m, mc, total) ==
    IF total < FreeTicks THEN Ticks \cup CoarseTicks
    ELSE IF m = "VBlank" THEN {ThresholdOf(m) - mc, ThresholdOf("HBlank")}
    ELSE {ThresholdOf(m) - mc}

\* self.memory.gpu.step(cycle_nb), the amount added to the count of ticks.
StepCounted ==
    /\ ppc = "run"
    /\ fault = "none"
    /\ \E cycle_nb \in StepAmounts(mode, modeclock, ticks) :
          /\ ticks + cycle_nb <= MaxTicks
          /\ RunGpuStep(Memory, cycle_nb, StepTo(mode, modeclock, line, cycle_nb))
    /\ UNCHANGED <<graphics_ram, scroll_x, scroll_y, channel, pair, drawn, cpc, held,
                   script, gpuWrites, rom, bootrom, bootrom_lock, ram, mbc0_ram,
                   zero_page_ram, interrupt_flags, lastOp, lockWrites, regs,
                   overflow_checks, exit, lastInstr, steps>>

\* The program fills video RAM before the first line is over.
GpuWriteEarly ==
    /\ ticks < FreeTicks
    /\ GpuWrite

NextTicks ==
    \/ StepCounted
    \/ GpuWriteEarly

SpecTicks == Init /\ [][NextTicks]_vars

(***************************************************************************)
(* The claims.                                                             *)
(***************************************************************************)
\* Frames sent and not yet acknowledged: in the channel, or received and being drawn.
InFlight == Len(queue) + (IF cpc = "drawing" THEN 1 ELSE 0)

\* C1: with a consumer attached, at most one published frame is unacknowledged
\* in every reachable state; the flag is true only when no frame is in flight,
\* and a frame is sent only with the flag cleared and no other frame in flight.
C1_AtMostOneFrameInFlight ==
    pair => /\ InFlight <= 1
            /\ drawn => InFlight = 0
            /\ ppc = "send" => (InFlight = 0 /\ ~drawn)

\* The producer waits at the frame boundary while the previous frame is in flight.
C1_Witness == pair /\ InFlight = 1 /\ ppc = "wait" /\ published >= 1

\* C2: a frame handed to the consumer is a snapshot: what is appended to the
\* channel is the framebuffer at that instant, and a frame in the channel or in
\* the consumer's hands is never changed by a later step; it only moves from
\* the channel to the consumer and is then dropped.
C2_PublishedFrameIsSnapshot ==
    [][/\ queue' # queue =>
            \/ queue' = Append(queue, frame) /\ frame' = frame
            \/ queue # <<>> /\ queue' = Tail(queue) /\ held' = <<Head(queue)>>
       /\ held' # held =>
            \/ queue # <<>> /\ held' = <<Head(queue)>>
            \/ held' = <<>>]_vars

\* The consumer holds a frame while the PPU has rendered on into its own buffer.
C2_Witness == held # <<>> /\ held[1] # frame /\ gpuWrites = 1

\* C3: with a consumer attached, the flag created true and a fair consumer, the
\* producer is never blocked forever: whenever step() is at the frame boundary
\* it eventually sends the frame and returns, and it is inside the hand-off only
\* at that boundary.
C3_ProducerNeverBlockedForever ==
    /\ [](ppc # "run" => (mode = "VBlank" /\ line = VBlankStartLine /\ modeclock = 0))
    /\ (ppc \in {"lock", "wait"}) ~> (ppc = "send")
    /\ (ppc # "run") ~> (ppc = "run")

\* The producer is blocked on the condition variable.
C3_Witness == ppc = "wait" /\ InFlight = 1

\* C4: while no consumer is attached, step() is never in the hand-off and never
\* sends: every call returns, nothing is queued and the flag is untouched.
C4_NoConsumerNoBlocking ==
    ~pair => /\ ppc = "run"
             /\ ~channel
             /\ queue = <<>>
             /\ held = <<>>
             /\ published = 0
             /\ sentAtLine = <<>>
             /\ ~drawn

\* Without a consumer the PPU has passed the frame boundary and started the
\* next frame.
C4_Witness == ~pair /\ mode = "OAMAccess" /\ line = 0

\* C5: at every publication each of the rows 0..143 has been rendered since
\* the previous publication.
C5_EveryRowPaintedAtPublication ==
    [][Len(queue') > Len(queue) => painted = Rows]_vars

\* C6: after step(80), step(172), step(204) on a fresh PPU the scanline index
\* is 1 and the mode is OAM scan.
C6_After456Ticks ==
    (script = 3 /\ ppc = "run") => (line = 1 /\ mode = "OAMAccess")

\* C7: with a consumer attached from the start, after 144 repetitions of
\* step(80), step(172), step(204) exactly one frame has been published, and it
\* was published while the scanline index was below 144.
C7_OneFrameAfter144Lines ==
    (pair /\ script = 3 * 144 /\ ppc = "run") =>
        (published = 1 /\ Len(sentAtLine) = 1 /\ sentAtLine[1] < 144)

\* The 144 repetitions are done and the frame has been published.
C7_Witness == pair /\ script = 3 * 144 /\ ppc = "run" /\ published = 1

\* C8: after every call of step the mode is VBlank exactly when the scanline
\* index is in 144..153.
C8_VBlankIffLine144To153 ==
    ppc = "run" => ((mode = "VBlank") <=> (line \in 144..153))

\* C9: the scanline index is always within 0..153, also as read through the
\* current-scanline register 0xFF44.
C9_LineInRange ==
    /\ line \in 0..153
    /\ ReadByte(Memory, 65348).ok
    /\ ReadByte(Memory, 65348).val \in 0..153

\* The last line of VBlank, from which the index wraps to 0.
C9_Witness == line = 153 /\ mode = "VBlank" /\ ReadByte(Memory, 65348).val = 153

\* C10: once the boot overlay is unmapped, no write maps it again.
C10_BootLockIrreversible ==
    [][bootrom_lock = FALSE => bootrom_lock' = FALSE]_vars

\* A write to 0xFF50 made after the overlay was unmapped has left it unmapped.
C10_Witness ==
    /\ ~bootrom_lock
    /\ lastOp.kind = "write"
    /\ lastOp.address = 65360
    /\ lastOp.val = 0
    /\ ~lastOp.lockBefore

\* Addresses of the cartridge ROM above the overlay that the properties read.
RomProbe == {256, 257, 16383, 16384, 32767}

\* C11: every address 0x0000..0x00FF reads the boot image byte as long as no
\* value with bit 0 set has been written to the boot-lock register, and the
\* cartridge ROM byte after such a write; a further such write changes no
\* field of the decoder; addresses from 0x0100 read the cartridge ROM whatever
\* the lock is.
C11_BootOverlayReads ==
    /\ [](\A a \in 0..255 :
            ReadByte(Memory, a) =
                Ok(IF lockWrites = 0 THEN ByteAt(BootImage, a) ELSE ByteAt(RomImage, a)))
    /\ [](\A a \in RomProbe : ReadByte(Memory, a) = Ok(ByteAt(RomImage, a)))
    /\ [][(/\ lastOp'.kind = "write"
           /\ lastOp'.address = 65360
           /\ lastOp'.val % 2 = 1
           /\ lockWrites >= 1)
          => UNCHANGED <<rom, bootrom, bootrom_lock, ram, mbc0_ram, zero_page_ram,
                         interrupt_flags, ppuVars, fault>>]_vars

\* After the second write of 1 to 0xFF50, address 0x0050 has been read and
\* returned the cartridge byte.
C11_Witness ==
    /\ lockWrites = 2
    /\ ~bootrom_lock
    /\ lastOp.kind = "read"
    /\ lastOp.address = 80
    /\ lastOp.val = ByteAt(RomImage, 80)
    /\ lastOp.val # ByteAt(BootImage, 80)

\* C12: in every reachable state bits 0..3 of register F are zero.
C12_FLowNibbleZero == regs.f % 16 = 0

\* The run of the cartridge whose first bytes are 3E 05 76 (LD A,5; HALT), the
\* boot overlay unmapped before run() is called with PC = 0.
HaltProgramRun == rom = RomImage /\ ~bootrom_lock

\* C13: that run ends, and it ends by returning the HALT exit with A = 5, the
\* HALT fetched at address 2 after a two-byte instruction at address 0 (the
\* bytes at 0, 1 and 2 consumed, in two iterations), and 8 ticks handed to the
\* PPU in total.
C13_LdHaltProgram ==
    /\ [](HaltProgramRun =>
            /\ fault = "none"
            /\ steps = 1 => (lastInstr.pc = 0 /\ lastInstr.bytes = 2 /\ regs.pc = 2)
            /\ exit # "none" =>
                  /\ exit = "Halt"
                  /\ regs.a = 5
                  /\ steps = 2
                  /\ lastInstr.pc = 2
                  /\ lastInstr.instr = 118
                  /\ regs.pc = 2
                  /\ ticks = 8)
    /\ (HaltProgramRun ~> exit = "Halt")

\* The run has returned HALT with A = 5 after 8 ticks.
C13_Witness ==
    /\ HaltProgramRun
    /\ exit = "Halt"
    /\ regs.a = 5
    /\ ticks = 8
    /\ lastInstr.pc = 2

\* C14: an iteration whose read or write hit an address that no backing
\* store and no I/O handler answers makes run() return the out-of-bounds exit,
\* and ends the run in no other way.
C14_BadAccessReturnsOobRead ==
    lastInstr.cause = "access" => (exit = "OobRead" /\ fault = "none")

\* The opcodes without a decode arm, DAA, and the CB-prefixed sub-opcodes
\* outside RL (0x10..0x17), SWAP (0x30..0x37), SRL (0x38..0x3F) and BIT 7
\* (0x78..0x7F).
NoArmOpcodes == {211, 219, 221, 227, 228, 235, 236, 237, 244, 252, 253}
FatalOpcode(instr, sub) ==
    \/ instr \in NoArmOpcodes
    \/ instr = 39
    \/ instr = 203 /\ sub \notin ((16..23) \cup (48..63) \cup (120..127))

\* C15: an iteration that fetches such an opcode ends in the panic; the
\* arm leaves the register file and the memory as they were, the PPU is not
\* stepped, run() does not return, and no iteration follows a panic.
C15_UnknownOpcodeFatal ==
    /\ [][FatalOpcode(lastInstr'.instr, lastInstr'.sub) =>
            /\ fault' = "panic"
            /\ exit' = "none"
            /\ Executed.r = regs
            /\ Executed.m = Memory
            /\ lastInstr'.stepped = <<>>
            /\ UNCHANGED <<regs, rom, bootrom_lock, ram, mbc0_ram, zero_page_ram,
                           interrupt_flags, ppuVars, ticks>>]_vars
    /\ [][fault = "none"]_vars

\* After the setup instructions a CB-prefixed BIT 0 was fetched and the run
\* is in the panic.
C15_Witness ==
    /\ fault = "panic"
    /\ lastInstr.instr = 203
    /\ lastInstr.sub = 64
    /\ lastInstr.cause = "opcode"
    /\ lastInstr.before.sp = 53248

\* The encoded length of an instruction: three bytes with a 16-bit operand,
\* two bytes with an 8-bit operand or the CB prefix, one byte otherwise.
ThreeByteOpcodes ==
    {1, 17, 33, 49, 8, 194, 195, 196, 202, 204, 205, 210, 212, 218, 220, 234, 250}
TwoByteOpcodes ==
    {6, 14, 22, 30, 38, 46, 54, 62, 16, 24, 32, 40, 48, 56, 198, 206, 214, 222, 230,
     238, 246, 254, 203, 224, 240, 232, 248}
InstrLength(instr) ==
    IF instr \in ThreeByteOpcodes THEN 3
    ELSE IF instr \in TwoByteOpcodes THEN 2
    ELSE 1

\* The condition NZ, Z, NC or C that bits 3-4 of a conditional opcode name, on
\* the flag register f.
ConditionTrue(instr, f) ==
    LET z == f >= 128
        c == (f \div 16) % 2 = 1
        k == (instr \div 8) % 4
    IN  (k = 0 /\ ~z) \/ (k = 1 /\ z) \/ (k = 2 /\ ~c) \/ (k = 3 /\ c)

\* JR, JP, CALL, RET, RETI, RST and JP (HL), and their conditional forms when
\* the condition is true.
TransfersControl(instr, f) ==
    \/ instr \in {24, 195, 201, 205, 217, 233, 199, 207, 215, 223, 231, 239, 247, 255}
    \/ /\ instr \in {32, 40, 48, 56, 192, 200, 208, 216, 194, 202, 210, 218,
                      196, 204, 212, 220}
       /\ ConditionTrue(instr, f)

\* C16: an iteration that executes an instruction which neither ends the run
\* nor transfers control leaves PC at PC + the encoded length, and calls the
\* PPU's step once, with 4 times the machine cycles of the instruction, on the
\* registers and memory the instruction left: a line rendered by that step
\* shows the video RAM and scroll register as the instruction wrote them.
C16_PcAdvanceAndPpuStep ==
    [][(lastInstr'.out = "next" /\ ~TransfersControl(lastInstr'.instr, regs.f)) =>
          /\ regs'.pc = regs.pc + InstrLength(lastInstr'.instr)
          /\ lastInstr'.stepped = <<4 * lastInstr'.cycles>>
          /\ ticks' = ticks + 4 * lastInstr'.cycles
          /\ LET s == StepTo(mode, modeclock, line, 4 * lastInstr'.cycles)
             IN  /\ mode' = s.mode
                 /\ modeclock' = s.modeclock
                 /\ line' = s.line
                 /\ frame' = IF s.render
                              THEN RenderLine(frame, graphics_ram', line, scroll_x,
                                              scroll_y')
                              ELSE frame]_vars

\* LD (HL),0x40 has written video RAM at 0x8002 and the step of the same
\* iteration has rendered line 1 with the pixels of the written byte.
C16_Witness ==
    /\ lastInstr.instr = 54
    /\ lastInstr.out = "next"
    /\ regs.pc = lastInstr.pc + 2
    /\ lastInstr.stepped = <<12>>
    /\ ByteAt(graphics_ram, 2) = 64
    /\ mode = "HBlank"
    /\ modeclock = 0
    /\ frame[1].alpha = 255
    /\ 1 \in frame[1].lit

\* C17: after a taken JP a16 or JP cc,a16 at address p, PC is the word at
\* p + 1 (low byte first), the instruction length not added to it.
C17_TakenJumpLoadsImmediate ==
    [][(/\ lastInstr'.out = "next"
        /\ \/ lastInstr'.instr = 195
           \/ /\ lastInstr'.instr \in {194, 202, 210, 218}
              /\ ConditionTrue(lastInstr'.instr, regs.f))
       => regs'.pc = ReadByte(Memory, regs.pc + 1).val
                     + 256 * ReadByte(Memory, regs.pc + 2).val]_vars

\* CALL a16, or CALL cc,a16 with its condition true on the flag register f.
TakenCall(instr, f) ==
    \/ instr = 205
    \/ instr \in {196, 204, 212, 220} /\ ConditionTrue(instr, f)

\* C18: a taken CALL at address p leaves the word p + 3 on the stack, SP two
\* lower (as a 16-bit value) and PC at the immediate operand; a RET executed next sets PC to
\* p + 3 and SP to its value before the CALL.
C18_CallPushesReturnAddress ==
    /\ [][(lastInstr'.out = "next" /\ TakenCall(lastInstr'.instr, regs.f)) =>
            /\ regs'.sp = (regs.sp + 65534) % 65536
            /\ regs'.pc = ReadByte(Memory, regs.pc + 1).val
                          + 256 * ReadByte(Memory, regs.pc + 2).val
            /\ (ReadByte(Memory, regs.sp).val
                 + 256 * ReadByte(Memory, regs.sp + 1).val)' = regs.pc + 3]_vars
    /\ [][(/\ lastInstr.out = "next"
           /\ TakenCall(lastInstr.instr, lastInstr.before.f)
           /\ lastInstr'.instr = 201
           /\ lastInstr'.out = "next")
          => (regs'.pc = lastInstr.pc + 3 /\ regs'.sp = lastInstr.before.sp)]_vars

\* The register pair a PUSH stores and the one a POP loads, as 16-bit words.
PushedWord(instr, r) ==
    CASE instr = 197 -> r.b * 256 + r.c
      [] instr = 213 -> r.d * 256 + r.e
      [] instr = 229 -> r.h * 256 + r.l
      [] instr = 245 -> r.a * 256 + r.f
PoppedWord(instr, r) ==
    CASE instr = 193 -> r.b * 256 + r.c
      [] instr = 209 -> r.d * 256 + r.e
      [] instr = 225 -> r.h * 256 + r.l
      [] instr = 241 -> r.a * 256 + r.f

\* SP at least 0x0100 away from both ends of the address space.
AwayFromEnds(sp) == sp \in 256..65280

\* C19: with SP away from the ends of the address space, push16(x) (a PUSH)
\* succeeds, and pop16() right after it (a POP) returns x and leaves SP at its
\* value before the push.
C19_PushPopRoundTrip ==
    /\ [][(lastInstr'.instr \in {197, 213, 229, 245} /\ AwayFromEnds(regs.sp))
          => lastInstr'.out = "next"]_vars
    /\ [][(/\ lastInstr.instr \in {197, 213, 229, 245}
           /\ lastInstr.out = "next"
           /\ AwayFromEnds(lastInstr.before.sp)
           /\ lastInstr'.instr \in {193, 209, 225, 241})
          => /\ lastInstr'.out = "next"
             /\ PoppedWord(lastInstr'.instr, regs')
                  = PushedWord(lastInstr.instr, lastInstr.before)
             /\ regs'.sp = lastInstr.before.sp]_vars

\* The first address of video RAM, external RAM, work RAM, the echo of work
\* RAM and high RAM.
RamProbe == {32768, 40960, 49152, 57344, 65408}

\* C20: write_byte(addr, v) to an address of a RAM range succeeds, and a
\* read_byte(addr) right after it returns v.
C20_RamWriteReadBack ==
    [][\A addr \in RamProbe :
          (lastOp' # lastOp /\ lastOp'.kind = "write" /\ lastOp'.address = addr)
          => /\ fault' = "none"
             /\ ReadByte(Memory, addr)' = Ok(lastOp'.val)]_vars

\* RL (HL), SWAP (HL), SRL (HL) and BIT 7,(HL).
CbIndirect(instr, sub) == instr = 203 /\ sub \in {22, 54, 62, 126}

\* C21: a CB-prefixed instruction on (HL) works on the cell read_byte(HL) and
\* write_byte(HL) resolve to: where read_byte(HL) answers it does not fail,
\* BIT 7,(HL) tests the byte read_byte(HL) returns, and the cartridge ROM
\* image, which write_byte never changes, is left as it was.
C21_CbIndirectFollowsRouting ==
    [][(CbIndirect(lastInstr'.instr, lastInstr'.sub)
        /\ ReadByte(Memory, regs.h * 256 + regs.l).ok)
       => /\ lastInstr'.out = "next"
          /\ rom' = rom
          /\ lastInstr'.sub = 126 =>
                (regs'.f >= 128 <=> ReadByte(Memory, regs.h * 256 + regs.l).val < 128)]_vars

(***************************************************************************)
(* The ALU, run on the programs of AluPrograms: the operands are the       *)
(* accumulator and flags the program popped into AF, lastInstr.before is    *)
(* the register file before the last instruction.                          *)
(***************************************************************************)
\* The instruction just executed is instr and the loop went on after it.
Ran(rec, instr) == rec.instr = instr /\ rec.out = "next"

\* INC A then DEC A, or DEC A then INC A, executed back to back.
IncDecPair(first, second) ==
    /\ (Ran(first, 60) /\ Ran(second, 61)) \/ (Ran(first, 61) /\ Ran(second, 60))
    /\ second.pc = first.pc + 1

\* C22: alu_inc8 and alu_dec8 are inverse on the returned value: for every
\* 8-bit v, alu_inc8(alu_dec8(v)) = v and alu_dec8(alu_inc8(v)) = v, 0 and 255
\* wrapping, whatever the flags were.
C22_IncDecInverse ==
    [][IncDecPair(lastInstr, lastInstr') => regs'.a = lastInstr.before.a]_vars

\* DEC A took 0 to 255 and INC A brought it back to 0.
C22_Witness ==
    /\ Ran(lastInstr, 60)
    /\ lastInstr.pc = 5
    /\ ByteAt(rom, 4) = 61 /\ ByteAt(rom, 17) = 0
    /\ lastInstr.before.a = 255
    /\ regs.a = 0


\* C23: after alu_inc8(v) the zero flag is set exactly when v = 255, and after
\* alu_dec8(v) exactly when v = 1, for every 8-bit v and every prior flag
\* state.
C23_IncDecZeroFlag ==
    [][/\ Ran(lastInstr', 60) => (flag(regs', FlagZ) <=> regs.a = 255)
       /\ Ran(lastInstr', 61) => (flag(regs', FlagZ) <=> regs.a = 1)]_vars

\* INC A cleared a zero flag that was set: A was 0 and is 1.
C23_Witness ==
    /\ Ran(lastInstr, 60)
    /\ lastInstr.before.a = 0
    /\ flag(lastInstr.before, FlagZ)
    /\ regs.a = 1
    /\ ~flag(regs, FlagZ)


\* ADD A,d8 then SUB d8 with the same operand, executed back to back.
AddSubPair(first, second) ==
    /\ Ran(first, 198) /\ Ran(second, 214)
    /\ second.pc = first.pc + 2
    /\ second.sub = first.sub

\* C24: alu_add(b) followed by alu_sub(b) restores the accumulator: for every
\* a and b, starting from A = a, A is a again afterwards, from any flag
\* state.
C24_AddSubRestores ==
    [][AddSubPair(lastInstr, lastInstr') => regs'.a = lastInstr.before.a]_vars

\* 200 + 128 wrapped to 72 and SUB 128 brought back 200.
C24_Witness ==
    /\ Ran(lastInstr, 214)
    /\ lastInstr.pc = 6
    /\ ByteAt(rom, 4) = 198 /\ ByteAt(rom, 5) = 128 /\ ByteAt(rom, 17) = 200
    /\ lastInstr.sub = 128
    /\ lastInstr.before.a = 72
    /\ regs.a = 200


\* The carry flag as the number added by ADC and SBC.
CarryIn(r) == IF flag(r, FlagC) THEN 1 ELSE 0

\* C27: ADC with operand v and carry-in c gives (a + v + c) mod 256 with the
\* carry set exactly when a + v + c > 255; SBC gives (a - v - c) mod 256 with
\* the carry set exactly when v + c > a; v = 255 with c = 1 included.
C27_AdcSbcCarry ==
    [][/\ Ran(lastInstr', 206) =>
            /\ regs'.a = (regs.a + lastInstr'.sub + CarryIn(regs)) % 256
            /\ flag(regs', FlagC) <=> regs.a + lastInstr'.sub + CarryIn(regs) > 255
       /\ Ran(lastInstr', 222) =>
            /\ regs'.a = (regs.a - lastInstr'.sub - CarryIn(regs) + 512) % 256
            /\ flag(regs', FlagC) <=> lastInstr'.sub + CarryIn(regs) > regs.a]_vars


\* C28: AND, OR and XOR store the bitwise result in the accumulator, set Z
\* exactly when it is zero, clear N and C, and leave H set for AND and cleared
\* for OR and XOR.
C28_LogicFlags ==
    [][\A op \in {230, 238, 246} :
          Ran(lastInstr', op) =>
            /\ regs'.a = (CASE op = 230 -> BitAnd(regs.a, lastInstr'.sub)
                            [] op = 238 -> BitXor(regs.a, lastInstr'.sub)
                            [] op = 246 -> BitOr(regs.a, lastInstr'.sub))
            /\ flag(regs', FlagZ) <=> regs'.a = 0
            /\ ~flag(regs', FlagN)
            /\ ~flag(regs', FlagC)
            /\ flag(regs', FlagH) <=> op = 230]_vars


\* C29: alu_inc8(v) clears N and leaves H set exactly when the low nibble of v
\* is 0x0F; alu_dec8(v) sets N and leaves H set exactly when the low nibble of
\* v is 0; neither changes C; for every 8-bit v and every prior flag state.
C29_IncDecHalfCarry ==
    [][/\ Ran(lastInstr', 60) =>
            /\ ~flag(regs', FlagN)
            /\ flag(regs', FlagH) <=> regs.a % 16 = 15
            /\ flag(regs', FlagC) <=> flag(regs, FlagC)
       /\ Ran(lastInstr', 61) =>
            /\ flag(regs', FlagN)
            /\ flag(regs', FlagH) <=> regs.a % 16 = 0
            /\ flag(regs', FlagC) <=> flag(regs, FlagC)]_vars


\* C30: RST n executed at address p pushes the return address p + 1, SP two
\* lower, and the next instruction is fetched from exactly n.
C30_RstPushesAndVectors ==
    [][(lastInstr'.instr \in OpRst /\ lastInstr'.out = "next") =>
            /\ regs'.sp = (regs.sp + 65534) % 65536
            /\ regs'.pc = lastInstr'.instr - 199
            /\ (ReadByte(Memory, regs.sp).val
                 + 256 * ReadByte(Memory, regs.sp + 1).val)' = regs.pc + 1]_vars


(***************************************************************************)
(* The PPU timing, on the calls of step whose amounts are counted: a call  *)
(* of step(t) is a step of the run with ticks' = ticks + t.                 *)
(***************************************************************************)
\* The threshold the timing property names for each mode.
NamedThreshold(m) ==
    CASE m = "OAMAccess" -> 80
      [] m = "VRAMAccess" -> 172
      [] m = "HBlank" -> 204
      [] m = "VBlank" -> 456

ModeOrder ==
    {<<"OAMAccess", "VRAMAccess">>, <<"VRAMAccess", "HBlank">>,
     <<"HBlank", "OAMAccess">>, <<"HBlank", "VBlank">>, <<"VBlank", "OAMAccess">>}

\* C25: the mode changes only along OAM scan -> pixel transfer -> HBlank ->
\* (OAM scan or VBlank) and VBlank -> OAM scan, and only in a call in which the
\* accumulator reached the mode's threshold (80, 172, 204, 456); line changes
\* only when HBlank is left or a VBlank line ends; the frame changes only on
\* pixel transfer -> HBlank, which renders exactly row line.
C25_TimingDrivenModes ==
    [][/\ mode' # mode =>
            /\ <<mode, mode'>> \in ModeOrder
            /\ modeclock + (ticks' - ticks) >= NamedThreshold(mode)
       /\ line' # line =>
            \/ mode = "HBlank" /\ mode' # "HBlank"
            \/ mode = "VBlank" /\ modeclock + (ticks' - ticks) >= 456
       /\ frame' # frame => mode = "VRAMAccess" /\ mode' = "HBlank"
       /\ (mode = "VRAMAccess" /\ mode' = "HBlank") =>
            /\ line \in Rows
            /\ frame'[line] = RenderedRow(graphics_ram, line, scroll_x, scroll_y)
            /\ \A row \in Rows \ {line} : frame'[row] = frame[row]]_vars

\* A whole frame was stepped through: the PPU is back in OAM scan on line 0
\* after VBlank, rows 8 and 16 were rendered from the written tile and row 9
\* from its unwritten bytes.
C25_Witness ==
    /\ mode = "OAMAccess"
    /\ line = 0
    /\ ticks > 0
    /\ frame[8].lit # {}
    /\ frame[16].lit # {}
    /\ frame[9].lit = {}


\* The ticks from the start of the frame (OAM scan, line 0, accumulator 0) to
\* a timing state when none is lost: 456 per line, 80 of OAM scan and 172 of
\* pixel transfer before HBlank, and VBlank lines counted from their start.
FramePosition(m, mc, ln) ==
    ln * 456 + mc + (CASE m = "OAMAccess" -> 0
                       [] m = "VRAMAccess" -> 80
                       [] m = "HBlank" -> 80 + 172
                       [] m = "VBlank" -> 0)

\* C26: step loses no ticks: every transition the accumulated ticks reach is
\* performed and the overshoot carried over, so the timing state is always the
\* one the total of ticks gives, a frame being 154 * 456 = 70224 ticks,
\* however the ticks are split across the calls.
C26_NoTicksLost ==
    FramePosition(mode, modeclock, line)
        = (FramePosition("HBlank", 0, 0) + ticks) % (154 * 456)


====
